---------------------------- MODULE Spec2Model ----------------------------
(***************************************************************************)
(* A model of the consistent-hash ring (ConsistentHash) and of the         *)
(* key-value store placed on it (KeyValueStore).                           *)
(*                                                                         *)
(* Strings that are hashed or ordered (node names, server ids, keys) are   *)
(* sequences of character codes: "a#0" is <<97, 35, 48>> and the empty     *)
(* string is <<>>.  Values, which the code only stores and returns, are    *)
(* TLA+ strings, "" being the empty string.                                *)
(*                                                                         *)
(* The ring's positions are uint32_t in the code.  The model keeps the     *)
(* low HashBits bits of every position: FNV-1a's xor and multiply and the  *)
(* probe's increment are all computed modulo 2^HashBits, which is exactly  *)
(* the low HashBits bits of the 32-bit result, so that collisions and the  *)
(* wrap of the ring happen within a few nodes.                             *)
(***************************************************************************)
EXTENDS Integers, Sequences, FiniteSets, TLC

\* Width of a ring position in bits (32 in the code).
HashBits == 4

\* Largest virtualNodesPerNode a store or ring is constructed with.
MaxVirtualNodes == 2

HashSpace == 2 ^ HashBits

\* The low 16 bits (0x9DC5) of FNV_OFFSET_BASIS = 2166136261u = 0x811C9DC5.
FNV_OFFSET_BASIS == 40389

FNV_PRIME == 16777619

\* Server ids / node names offered to the operations: "", "a", "b", "c".
ServerIds == {<<>>, <<97>>, <<98>>, <<99>>}

\* Keys offered to the operations: "", "k", "x".
Keys == {<<>>, <<107>>, <<120>>}

\* Values offered to set: "" and "v1".
Values == {"", "v1"}

\* Node names offered to a ring used on its own: "", "d", "i" and "p".
\* With 4 bits "i#0" and "p#1" hash to the last position, 15, "i#1" and "p#0"
\* to 12, and "d#0" to 0, the position after the last.
NodeNames == {<<>>, <<100>>, <<105>>, <<112>>}

\* Keys routed by the calls of getNode and getNodes on a ring of its own: "k", "p".
RouteKeys == {<<107>>, <<112>>}

\* Server ids and keys offered to a store whose reading calls are followed too:
\* "", "a", "b" and "", "k".
ReadServerIds == {<<>>, <<97>>, <<98>>}
ReadKeys == {<<>>, <<107>>}

\* The largest count asked of getNodes and the largest numTestKeys asked of
\* getDistributionStats.
MaxCount == 4
MaxTestKeys == 3

\* Keys whose routes are examined: "" and "a" .. "z".
ProbeKeys == {<<>>} \cup {<<c>> : c \in 97..122}

VARIABLES
    virtualNodesPerNode_,  \* ConsistentHash::virtualNodesPerNode_
    ring_,                 \* ConsistentHash::ring_ : position -> node name
    nodeToHashes_,         \* ConsistentHash::nodeToHashes_ : node name -> positions
    data_,                 \* KeyValueStore::data_ : key -> value
    serverKeys_,           \* KeyValueStore::serverKeys_ : server id -> keys
    op,                    \* the last call: its name and arguments
    ret,                   \* what the last call returned
    exc,                   \* the exception the last call raised, "" if none
    writtenSinceAdd,       \* history: keys set after the last successful addServer
    ringHistory,           \* history of a ring used on its own:
                           \*   probed - some addNode since construction or clear()
                           \*            found a hashed position taken
                           \*   changed - the last call of the ring changed ring_
                           \*   routed - per key, the node getNode returned since ring_
                           \*            last changed, and whether it was asked again
    threads,               \* per thread calling the store: where it is in its call,
                           \*   the call, its local variables and what it will return
    mutex_,                \* KeyValueStore::mutex_ (store) and ConsistentHash::mutex_
                           \*   (ring): the thread holding each, 0 when it is free; a
                           \*   ring shared by the threads on its own has only its own
    baseUrl_,              \* UrlShortenerKV::baseUrl_
    kvStore_,              \* UrlShortenerKV::kvStore_ : the store of short code -> URL,
                           \*   as [ring, nodeToHashes, data, serverKeys]
    reverseKvStore_,       \* UrlShortenerKV::reverseKvStore_ : the store of URL -> short code
    nextId_,               \* UrlShortenerKV::nextId_
    shortCodeIndex_        \* UrlShortenerKV::shortCodeIndex_

vars == <<virtualNodesPerNode_, ring_, nodeToHashes_, data_, serverKeys_,
          op, ret, exc, writtenSinceAdd, ringHistory, threads, mutex_,
          baseUrl_, kvStore_, reverseKvStore_, nextId_, shortCodeIndex_>>

\* The variables of a UrlShortenerKV, which the calls of a store or a ring that
\* is not its own leave alone.
shortenerVars == <<baseUrl_, kvStore_, reverseKvStore_, nextId_, shortCodeIndex_>>

\* The variables of the threads, which a call made by one caller leaves alone.
threadVars == <<threads, mutex_>>

-----------------------------------------------------------------------------
(* Helpers for the containers of the code. *)

\* The empty std::map.
EmptyMap == [x \in {} |-> x]

\* MapPut as std::map::insert, which keeps the value of a key already present.
MapPut_InsertOnly(m, k, v) ==
    [x \in DOMAIN m \cup {k} |-> IF x \in DOMAIN m THEN m[x] ELSE v]

\* std::map::operator[] assignment: m[k] = v.
MapPut(m, k, v) == [x \in DOMAIN m \cup {k} |-> IF x = k THEN v ELSE m[x]]

\* MapErase with the erase left out.
MapErase_Keeps(m, k) == m

\* std::map::erase(k).
MapErase(m, k) == [x \in DOMAIN m \ {k} |-> m[x]]

\* The elements of a vector.
Range(s) == {s[i] : i \in DOMAIN s}

\* The smallest element of a non-empty set of integers.
SetMin(S) == CHOOSE x \in S : \A y \in S : x <= y

\* std::string's operator<, the order of std::map<std::string, ...>.
RECURSIVE StrLess(_, _)
StrLess(a, b) ==
    IF b = <<>> THEN FALSE
    ELSE IF a = <<>> THEN TRUE
    ELSE IF Head(a) # Head(b) THEN Head(a) < Head(b)
    ELSE StrLess(Tail(a), Tail(b))

\* std::find(keys.begin(), keys.end(), key): the first index holding key, 0 for end().
Find(keys, key) ==
    IF key \in Range(keys)
    THEN SetMin({i \in DOMAIN keys : keys[i] = key})
    ELSE 0

\* vector::erase(it): the vector without its element at index i.
EraseAt(keys, i) == [j \in 1..(Len(keys) - 1) |-> IF j < i THEN keys[j] ELSE keys[j + 1]]

\* keys.erase(std::remove(keys.begin(), keys.end(), key), keys.end()).
EraseAll(keys, key) == SelectSeq(keys, LAMBDA x : x # key)

-----------------------------------------------------------------------------
(* ConsistentHash *)

\* a ^ b on unsigned integers.
RECURSIVE BitXor(_, _)
BitXor(a, b) ==
    IF a = 0 THEN b
    ELSE IF b = 0 THEN a
    ELSE (((a % 2) + (b % 2)) % 2) + (2 * BitXor(a \div 2, b \div 2))

\* The loop of ConsistentHash::hash from the value h over the rest of input.
RECURSIVE hashFrom(_, _)
hashFrom(h, input) ==
    IF input = <<>> THEN h
    ELSE hashFrom(((BitXor(h, Head(input)) % HashSpace) * (FNV_PRIME % HashSpace)) % HashSpace,
                  Tail(input))

\* ConsistentHash::hash: FNV-1a, kept to HashBits bits.
hash(input) == hashFrom(FNV_OFFSET_BASIS % HashSpace, input)

\* operator<<(int): the decimal digits of a non-negative int, as character codes.
RECURSIVE Decimal(_)
Decimal(n) == IF n < 10 THEN <<48 + n>> ELSE Decimal(n \div 10) \o <<48 + (n % 10)>>

\* ConsistentHash::getVirtualNodeName: nodeName + "#" + replicaIndex.
getVirtualNodeName(nodeName, replicaIndex) == nodeName \o <<35>> \o Decimal(replicaIndex)

\* addNode without its collision loop: a taken position is written over.
probe_Overwrites(ring, hashValue) == hashValue

\* The collision loop of addNode: while the position is taken, hashValue++.
RECURSIVE probe(_, _)
probe(ring, hashValue) ==
    IF hashValue \in DOMAIN ring THEN probe(ring, (hashValue + 1) % HashSpace)
    ELSE hashValue

\* The for loop of addNode taking a taken position for the new node and moving
\* its owner to the first free position after it.
RECURSIVE addVirtualNodes_Evicts(_, _, _, _)
addVirtualNodes_Evicts(rs, nodeName, i, n) ==
    IF i >= n THEN rs
    ELSE LET hashValue == hash(getVirtualNodeName(nodeName, i))
             moved     == IF hashValue \in DOMAIN rs.ring
                          THEN MapPut(rs.ring, probe(rs.ring, hashValue), rs.ring[hashValue])
                          ELSE rs.ring
         IN  addVirtualNodes_Evicts([ring   |-> MapPut(moved, hashValue, nodeName),
                                     hashes |-> Append(rs.hashes, hashValue)],
                                    nodeName, i + 1, n)

\* The for loop of addNode with ring_.insert in the place of the collision loop:
\* a taken position keeps its owner and is recorded for the new node all the same.
RECURSIVE addVirtualNodes_InsertsWithoutProbe(_, _, _, _)
addVirtualNodes_InsertsWithoutProbe(rs, nodeName, i, n) ==
    IF i >= n THEN rs
    ELSE LET hashValue == hash(getVirtualNodeName(nodeName, i))
         IN  addVirtualNodes_InsertsWithoutProbe(
                 [ring   |-> IF hashValue \in DOMAIN rs.ring THEN rs.ring
                             ELSE MapPut(rs.ring, hashValue, nodeName),
                  hashes |-> Append(rs.hashes, hashValue)],
                 nodeName, i + 1, n)

\* The for loop of addNode recording the hash of the label, not the position
\* the collision loop ended on.
RECURSIVE addVirtualNodes_RecordsHash(_, _, _, _)
addVirtualNodes_RecordsHash(rs, nodeName, i, n) ==
    IF i >= n THEN rs
    ELSE LET hashed    == hash(getVirtualNodeName(nodeName, i))
             hashValue == probe(rs.ring, hashed)
         IN  addVirtualNodes_RecordsHash([ring   |-> MapPut(rs.ring, hashValue, nodeName),
                                          hashes |-> Append(rs.hashes, hashed)],
                                         nodeName, i + 1, n)

\* The for loop of addNode from replica i on; rs = [ring, hashes].
RECURSIVE addVirtualNodes(_, _, _, _)
addVirtualNodes(rs, nodeName, i, n) ==
    IF i >= n THEN rs
    ELSE LET hashValue == probe(rs.ring, hash(getVirtualNodeName(nodeName, i)))
         IN  addVirtualNodes([ring   |-> MapPut(rs.ring, hashValue, nodeName),
                              hashes |-> Append(rs.hashes, hashValue)],
                             nodeName, i + 1, n)

\* addNode without the test that the node already exists.
addNode_NoExistsCheck(ring, nodeToHashes, vn, nodeName) ==
    LET rs == addVirtualNodes([ring |-> ring, hashes |-> <<>>], nodeName, 0, vn)
    IN  [ring |-> rs.ring,
         nodeToHashes |-> MapPut(nodeToHashes, nodeName, rs.hashes)]

\* ConsistentHash::addNode under the lock (nodeName is not empty):
\* the [ring, nodeToHashes] it leaves.
addNode(ring, nodeToHashes, vn, nodeName) ==
    IF nodeName \in DOMAIN nodeToHashes
    THEN [ring |-> ring, nodeToHashes |-> nodeToHashes]
    ELSE LET rs == addVirtualNodes([ring |-> ring, hashes |-> <<>>], nodeName, 0, vn)
         IN  [ring |-> rs.ring,
              nodeToHashes |-> MapPut(nodeToHashes, nodeName, rs.hashes)]

\* removeNode without its loop over the node's positions: ring_ keeps them.
removeNode_KeepsRing(ring, nodeToHashes, nodeName) ==
    IF nodeName \notin DOMAIN nodeToHashes
    THEN [ring |-> ring, nodeToHashes |-> nodeToHashes, ret |-> FALSE]
    ELSE [ring |-> ring,
          nodeToHashes |-> [n \in DOMAIN nodeToHashes \ {nodeName} |-> nodeToHashes[n]],
          ret |-> TRUE]

\* removeNode erasing the hashes of the node's labels, not the positions
\* recorded for it in nodeToHashes_.
removeNode_RehashesPositions(ring, nodeToHashes, nodeName) ==
    IF nodeName \notin DOMAIN nodeToHashes
    THEN [ring |-> ring, nodeToHashes |-> nodeToHashes, ret |-> FALSE]
    ELSE LET hashed == {hash(getVirtualNodeName(nodeName, i - 1)) :
                           i \in DOMAIN nodeToHashes[nodeName]}
         IN  [ring |-> [p \in DOMAIN ring \ hashed |-> ring[p]],
              nodeToHashes |-> MapErase(nodeToHashes, nodeName),
              ret |-> TRUE]

\* removeNode without nodeToHashes_.erase(it): the side index keeps the node.
removeNode_KeepsSideIndex(ring, nodeToHashes, nodeName) ==
    IF nodeName \notin DOMAIN nodeToHashes
    THEN [ring |-> ring, nodeToHashes |-> nodeToHashes, ret |-> FALSE]
    ELSE [ring |-> [p \in DOMAIN ring \ Range(nodeToHashes[nodeName]) |-> ring[p]],
          nodeToHashes |-> nodeToHashes,
          ret |-> TRUE]

\* removeNode with its loop starting at the second recorded position: the
\* first one stays in ring_.
removeNode_SkipsFirstPosition(ring, nodeToHashes, nodeName) ==
    IF nodeName \notin DOMAIN nodeToHashes
    THEN [ring |-> ring, nodeToHashes |-> nodeToHashes, ret |-> FALSE]
    ELSE [ring |-> [p \in DOMAIN ring \ Range(Tail(nodeToHashes[nodeName])) |-> ring[p]],
          nodeToHashes |-> MapErase(nodeToHashes, nodeName),
          ret |-> TRUE]

\* ConsistentHash::removeNode: the [ring, nodeToHashes, ret] it leaves.
removeNode(ring, nodeToHashes, nodeName) ==
    IF nodeName \notin DOMAIN nodeToHashes
    THEN [ring |-> ring, nodeToHashes |-> nodeToHashes, ret |-> FALSE]
    ELSE [ring |-> [p \in DOMAIN ring \ Range(nodeToHashes[nodeName]) |-> ring[p]],
          nodeToHashes |-> MapErase(nodeToHashes, nodeName),
          ret |-> TRUE]

\* upper_bound in the place of lower_bound: a position equal to keyHash is skipped.
lowerBoundOrBegin_UpperBound(ring, keyHash) ==
    LET greater == {p \in DOMAIN ring : p > keyHash}
    IN  IF greater = {} THEN SetMin(DOMAIN ring) ELSE SetMin(greater)

\* std::map::lower_bound(keyHash) on ring_, then the wrap to begin():
\* the position getNode reads.  The ring is not empty.
lowerBoundOrBegin(ring, keyHash) ==
    LET notLess == {p \in DOMAIN ring : p >= keyHash}
    IN  IF notLess = {} THEN SetMin(DOMAIN ring) ELSE SetMin(notLess)

\* ConsistentHash::getNode.
getNode(ring, key) ==
    IF DOMAIN ring = {} THEN <<>>
    ELSE ring[lowerBoundOrBegin(ring, hash(key))]

\* --it in the place of ++it, with the wrap to the last position: the position
\* before p.
nextOrBegin_Backward(ring, p) ==
    LET less == {q \in DOMAIN ring : q < p}
        last == CHOOSE q \in DOMAIN ring : \A r \in DOMAIN ring : r <= q
    IN  IF less = {} THEN last ELSE CHOOSE q \in less : \A r \in less : r <= q

\* ++it on ring_, then the wrap to begin(): the position after p.
nextOrBegin(ring, p) ==
    LET greater == {q \in DOMAIN ring : q > p}
    IN  IF greater = {} THEN SetMin(DOMAIN ring) ELSE SetMin(greater)

\* The do-while loop of getNodes without the test of seen: every position met
\* pushes its owner.
RECURSIVE collectNodes_NoSeen(_, _, _, _, _)
collectNodes_NoSeen(ring, it, startIt, nodes, count) ==
    LET pushed == Append(nodes, ring[it])
        next   == nextOrBegin(ring, it)
    IN  IF Len(pushed) >= count THEN pushed
        ELSE IF next # startIt
             THEN collectNodes_NoSeen(ring, next, startIt, pushed, count)
             ELSE pushed

\* The do-while loop of getNodes from the position it on, nodes collected so far
\* (the keys of seen are the elements of nodes).
RECURSIVE collectNodes(_, _, _, _, _)
collectNodes(ring, it, startIt, nodes, count) ==
    LET nodeName == ring[it]
        isNew    == nodeName \notin Range(nodes)
        pushed   == IF isNew THEN Append(nodes, nodeName) ELSE nodes
        next     == nextOrBegin(ring, it)
    IN  IF isNew /\ Len(pushed) >= count THEN pushed
        ELSE IF next # startIt /\ Len(pushed) < count
             THEN collectNodes(ring, next, startIt, pushed, count)
             ELSE pushed

\* ConsistentHash::getNodes.
getNodes(ring, key, count) ==
    IF DOMAIN ring = {} \/ count <= 0 THEN <<>>
    ELSE LET it == lowerBoundOrBegin(ring, hash(key))
         IN  collectNodes(ring, it, it, <<>>, count)

\* ConsistentHash::getNodeCount.
getNodeCount(nodeToHashes) == Cardinality(DOMAIN nodeToHashes)

\* ConsistentHash::getVirtualNodeCount.
getVirtualNodeCount(ring) == Cardinality(DOMAIN ring)

\* ConsistentHash::hasNode.
hasNode(nodeToHashes, nodeName) == nodeName \in DOMAIN nodeToHashes

\* ConsistentHash::getAllNodes, as the set of the names it lists.
getAllNodes(nodeToHashes) == DOMAIN nodeToHashes

\* The test-key loop of getDistributionStats from i on: stats[it->second]++
\* for "key_" + to_string(i).
RECURSIVE countTestKeys(_, _, _, _)
countTestKeys(stats, ring, i, numTestKeys) ==
    IF i >= numTestKeys THEN stats
    ELSE LET testKey == <<107, 101, 121, 95>> \o Decimal(i)
             owner   == ring[lowerBoundOrBegin(ring, hash(testKey))]
             before  == IF owner \in DOMAIN stats THEN stats[owner] ELSE 0
         IN  countTestKeys(MapPut(stats, owner, before + 1), ring, i + 1, numTestKeys)

\* getDistributionStats without the loop that gives every node the count 0: a
\* node that no test key reaches has no entry.
getDistributionStats_NoZeroEntries(ring, nodeToHashes, numTestKeys) ==
    IF DOMAIN ring = {} THEN EmptyMap
    ELSE countTestKeys(EmptyMap, ring, 0, numTestKeys)

\* ConsistentHash::getDistributionStats.
getDistributionStats(ring, nodeToHashes, numTestKeys) ==
    IF DOMAIN ring = {} THEN EmptyMap
    ELSE countTestKeys([n \in DOMAIN nodeToHashes |-> 0], ring, 0, numTestKeys)

-----------------------------------------------------------------------------
(* KeyValueStore *)

\* updateServerKeys with the test of std::find inverted: a new key is never added.
updateServerKeys_InvertedFind(serverKeys, key, serverId) ==
    IF serverId \in DOMAIN serverKeys /\ key \in Range(serverKeys[serverId])
    THEN [serverKeys EXCEPT ![serverId] = Append(@, key)]
    ELSE serverKeys

\* updateServerKeys without the test of std::find: the key is always pushed.
updateServerKeys_AlwaysPushes(serverKeys, key, serverId) ==
    IF serverId \in DOMAIN serverKeys
    THEN [serverKeys EXCEPT ![serverId] = Append(@, key)]
    ELSE serverKeys

\* KeyValueStore::updateServerKeys: the serverKeys_ it leaves.
updateServerKeys(serverKeys, key, serverId) ==
    IF serverId \in DOMAIN serverKeys /\ key \notin Range(serverKeys[serverId])
    THEN [serverKeys EXCEPT ![serverId] = Append(@, key)]
    ELSE serverKeys

\* KeyValueStore::removeFromServerKeys: the serverKeys_ it leaves.
removeFromServerKeys(serverKeys, key, serverId) ==
    IF serverId \in DOMAIN serverKeys
    THEN [serverKeys EXCEPT ![serverId] = EraseAll(@, key)]
    ELSE serverKeys

\* reassignKeys without the loop: the keys of the removed server are dropped.
reassignKeys_None(serverKeys, keysToReassign, i, data, ring) == serverKeys

\* The reassignment loop of removeServer over keysToReassign from index i on.
RECURSIVE reassignKeys(_, _, _, _, _)
reassignKeys(serverKeys, keysToReassign, i, data, ring) ==
    IF i > Len(keysToReassign) THEN serverKeys
    ELSE LET key == keysToReassign[i]
             newServer == getNode(ring, key)
         IN  reassignKeys(IF key \in DOMAIN data /\ newServer # <<>>
                          THEN updateServerKeys(serverKeys, key, newServer)
                          ELSE serverKeys,
                          keysToReassign, i + 1, data, ring)

\* The loop of set over serverKeys_ in the map's order: the key is erased from
\* the first server whose list holds it, and the loop breaks.
eraseFromOldServer(serverKeys, key) ==
    LET holders == {s \in DOMAIN serverKeys : key \in Range(serverKeys[s])}
    IN  IF holders = {} THEN serverKeys
        ELSE LET first == CHOOSE s \in holders : \A t \in holders \ {s} : StrLess(s, t)
             IN  [serverKeys EXCEPT ![first] = EraseAt(@, Find(@, key))]

\* KeyValueStore::get.
get(data, key) == IF key \in DOMAIN data THEN data[key] ELSE ""

\* KeyValueStore::exists.
exists(data, key) == key \in DOMAIN data

\* KeyValueStore::getKeysForServer.
getKeysForServer(serverKeys, serverId) ==
    IF serverId \in DOMAIN serverKeys THEN serverKeys[serverId] ELSE <<>>

\* KeyValueStore::getServers, as the set of the ids it lists.
getServers(serverKeys) == DOMAIN serverKeys

\* getServerForKey answering from the key lists: the server under which the
\* key is recorded, and the route of the ring for a key recorded nowhere.
getServerForKey_FromKeyLists(ring, key) ==
    LET holders == {s \in DOMAIN serverKeys_ :
                      \E i \in DOMAIN serverKeys_[s] : serverKeys_[s][i] = key}
    IN  IF holders = {} THEN getNode(ring, key) ELSE CHOOSE s \in holders : TRUE

\* KeyValueStore::getServerForKey.
getServerForKey(ring, key) == getNode(ring, key)

\* KeyValueStore::getStats.
getStats(serverKeys) == [s \in DOMAIN serverKeys |-> Len(serverKeys[s])]

\* KeyValueStore::getServerCount.
getServerCount(nodeToHashes) == getNodeCount(nodeToHashes)

\* KeyValueStore::getTotalEntries.
getTotalEntries(data) == Cardinality(DOMAIN data)

\* The record of a call.
Call(name, id, value) == [name |-> name, id |-> id, value |-> value]

\* setRejects without the test of key.empty().
setRejects_IgnoresEmptyKey(ring, nodeToHashes, key) ==
    \/ Cardinality(DOMAIN nodeToHashes) = 0
    \/ DOMAIN ring = {}

\* The early returns of set: an empty key, no servers, or no route for the key.
setRejects(ring, nodeToHashes, key) ==
    \/ key = <<>>
    \/ getNodeCount(nodeToHashes) = 0
    \/ getNode(ring, key) = <<>>

\* addServer that also moves to the new server every key the ring now routes
\* to it.
addServer_MovesKeys(serverId) ==
    /\ op' = Call("addServer", serverId, "")
    /\ UNCHANGED ringHistory
    /\ IF serverId = <<>>
       THEN /\ exc' = "invalid_argument"
            /\ ret' = FALSE
            /\ UNCHANGED <<ring_, nodeToHashes_, serverKeys_, writtenSinceAdd>>
       ELSE IF serverId \in DOMAIN serverKeys_
       THEN /\ exc' = ""
            /\ ret' = FALSE
            /\ UNCHANGED <<ring_, nodeToHashes_, serverKeys_, writtenSinceAdd>>
       ELSE LET r == addNode(ring_, nodeToHashes_, virtualNodesPerNode_, serverId)
                moved == {k \in DOMAIN data_ : getNode(r.ring, k) = serverId}
            IN  /\ ring_' = r.ring
                /\ nodeToHashes_' = r.nodeToHashes
                /\ serverKeys_' =
                       [t \in DOMAIN serverKeys_ \cup {serverId} |->
                           IF t = serverId THEN <<>>
                           ELSE SelectSeq(serverKeys_[t], LAMBDA k : k \notin moved)]
                /\ writtenSinceAdd' = {}
                /\ exc' = ""
                /\ ret' = TRUE
    /\ UNCHANGED <<virtualNodesPerNode_, data_>>
    /\ UNCHANGED <<threadVars, shortenerVars>>

\* addServer without hashRing_->addNode(serverId): the server gets a key list
\* and no place on the ring.
addServer_SkipsRing(serverId) ==
    /\ op' = Call("addServer", serverId, "")
    /\ UNCHANGED ringHistory
    /\ IF serverId = <<>>
       THEN /\ exc' = "invalid_argument"
            /\ ret' = FALSE
            /\ UNCHANGED <<serverKeys_, writtenSinceAdd>>
       ELSE IF serverId \in DOMAIN serverKeys_
       THEN /\ exc' = ""
            /\ ret' = FALSE
            /\ UNCHANGED <<serverKeys_, writtenSinceAdd>>
       ELSE /\ serverKeys_' = MapPut(serverKeys_, serverId, <<>>)
            /\ writtenSinceAdd' = {}
            /\ exc' = ""
            /\ ret' = TRUE
    /\ UNCHANGED <<virtualNodesPerNode_, ring_, nodeToHashes_, data_>>
    /\ UNCHANGED <<threadVars, shortenerVars>>

\* KeyValueStore::addServer.
addServer(serverId) ==
    /\ op' = Call("addServer", serverId, "")
    /\ UNCHANGED ringHistory
    /\ IF serverId = <<>>
       THEN /\ exc' = "invalid_argument"
            /\ ret' = FALSE
            /\ UNCHANGED <<ring_, nodeToHashes_, serverKeys_, writtenSinceAdd>>
       ELSE IF serverId \in DOMAIN serverKeys_
       THEN /\ exc' = ""
            /\ ret' = FALSE
            /\ UNCHANGED <<ring_, nodeToHashes_, serverKeys_, writtenSinceAdd>>
       ELSE LET r == addNode(ring_, nodeToHashes_, virtualNodesPerNode_, serverId)
            IN  /\ ring_' = r.ring
                /\ nodeToHashes_' = r.nodeToHashes
                /\ serverKeys_' = MapPut(serverKeys_, serverId, <<>>)
                /\ writtenSinceAdd' = {}
                /\ exc' = ""
                /\ ret' = TRUE
    /\ UNCHANGED <<virtualNodesPerNode_, data_>>
    /\ UNCHANGED <<threadVars, shortenerVars>>

\* removeServer that also erases the removed server's keys from data_.
removeServer_ErasesData(serverId) ==
    /\ op' = Call("removeServer", serverId, "")
    /\ UNCHANGED ringHistory
    /\ exc' = ""
    /\ IF serverId \notin DOMAIN serverKeys_
       THEN /\ ret' = FALSE
            /\ UNCHANGED <<ring_, nodeToHashes_, serverKeys_, data_>>
       ELSE /\ ring_' = [p \in {q \in DOMAIN ring_ : ring_[q] # serverId} |-> ring_[p]]
            /\ nodeToHashes_' = [n \in DOMAIN nodeToHashes_ \ {serverId} |-> nodeToHashes_[n]]
            /\ serverKeys_' = [t \in DOMAIN serverKeys_ \ {serverId} |-> serverKeys_[t]]
            /\ data_' = [k \in DOMAIN data_ \ Range(serverKeys_[serverId]) |-> data_[k]]
            /\ ret' = TRUE
    /\ UNCHANGED <<virtualNodesPerNode_, writtenSinceAdd>>
    /\ UNCHANGED <<threadVars, shortenerVars>>

\* removeServer without the early return for a server that is not there.
removeServer_NoAbsentCheck(serverId) ==
    /\ op' = Call("removeServer", serverId, "")
    /\ UNCHANGED ringHistory
    /\ exc' = ""
    /\ LET keysToReassign == getKeysForServer(serverKeys_, serverId)
           r == removeNode(ring_, nodeToHashes_, serverId)
       IN  /\ ring_' = r.ring
           /\ nodeToHashes_' = r.nodeToHashes
           /\ serverKeys_' = reassignKeys(MapErase(serverKeys_, serverId),
                                          keysToReassign, 1, data_, r.ring)
           /\ ret' = TRUE
    /\ UNCHANGED <<virtualNodesPerNode_, data_, writtenSinceAdd>>
    /\ UNCHANGED <<threadVars, shortenerVars>>

\* removeServer without serverKeys_.erase(it): the key list of the removed
\* server stays.
removeServer_KeepsKeyList(serverId) ==
    /\ op' = Call("removeServer", serverId, "")
    /\ UNCHANGED ringHistory
    /\ exc' = ""
    /\ IF serverId \notin DOMAIN serverKeys_
       THEN /\ ret' = FALSE
            /\ UNCHANGED <<ring_, nodeToHashes_, serverKeys_>>
       ELSE LET keysToReassign == serverKeys_[serverId]
                r == removeNode(ring_, nodeToHashes_, serverId)
            IN  /\ ring_' = r.ring
                /\ nodeToHashes_' = r.nodeToHashes
                /\ serverKeys_' = reassignKeys(serverKeys_, keysToReassign, 1, data_, r.ring)
                /\ ret' = TRUE
    /\ UNCHANGED <<virtualNodesPerNode_, data_, writtenSinceAdd>>
    /\ UNCHANGED <<threadVars, shortenerVars>>

\* KeyValueStore::removeServer.
removeServer(serverId) ==
    /\ op' = Call("removeServer", serverId, "")
    /\ UNCHANGED ringHistory
    /\ exc' = ""
    /\ IF serverId \notin DOMAIN serverKeys_
       THEN /\ ret' = FALSE
            /\ UNCHANGED <<ring_, nodeToHashes_, serverKeys_>>
       ELSE LET keysToReassign == serverKeys_[serverId]
                r == removeNode(ring_, nodeToHashes_, serverId)
            IN  /\ ring_' = r.ring
                /\ nodeToHashes_' = r.nodeToHashes
                /\ serverKeys_' = reassignKeys(MapErase(serverKeys_, serverId),
                                               keysToReassign, 1, data_, r.ring)
                /\ ret' = TRUE
    /\ UNCHANGED <<virtualNodesPerNode_, data_, writtenSinceAdd>>
    /\ UNCHANGED <<threadVars, shortenerVars>>

\* set throwing for an empty key, as addServer does for an empty id, in the
\* place of returning false.
set_ThrowsOnEmptyKey(key, value) ==
    /\ op' = Call("set", key, value)
    /\ UNCHANGED ringHistory
    /\ exc' = IF key = <<>> THEN "invalid_argument" ELSE ""
    /\ IF setRejects(ring_, nodeToHashes_, key)
       THEN /\ ret' = FALSE
            /\ UNCHANGED <<data_, serverKeys_, writtenSinceAdd>>
       ELSE LET serverId == getNode(ring_, key)
                keyExists == key \in DOMAIN data_
            IN  /\ data_' = MapPut(data_, key, value)
                /\ serverKeys_' = updateServerKeys(IF keyExists
                                                   THEN eraseFromOldServer(serverKeys_, key)
                                                   ELSE serverKeys_,
                                                   key, serverId)
                /\ writtenSinceAdd' = writtenSinceAdd \cup {key}
                /\ ret' = TRUE
    /\ UNCHANGED <<virtualNodesPerNode_, ring_, nodeToHashes_>>
    /\ UNCHANGED <<threadVars, shortenerVars>>

\* KeyValueStore::set.
set(key, value) ==
    /\ op' = Call("set", key, value)
    /\ UNCHANGED ringHistory
    /\ exc' = ""
    /\ IF setRejects(ring_, nodeToHashes_, key)
       THEN /\ ret' = FALSE
            /\ UNCHANGED <<data_, serverKeys_, writtenSinceAdd>>
       ELSE LET serverId == getNode(ring_, key)
                keyExists == key \in DOMAIN data_
            IN  /\ data_' = MapPut(data_, key, value)
                /\ serverKeys_' = updateServerKeys(IF keyExists
                                                   THEN eraseFromOldServer(serverKeys_, key)
                                                   ELSE serverKeys_,
                                                   key, serverId)
                /\ writtenSinceAdd' = writtenSinceAdd \cup {key}
                /\ ret' = TRUE
    /\ UNCHANGED <<virtualNodesPerNode_, ring_, nodeToHashes_>>
    /\ UNCHANGED <<threadVars, shortenerVars>>

\* KeyValueStore::remove.
remove(key) ==
    /\ op' = Call("remove", key, "")
    /\ UNCHANGED ringHistory
    /\ exc' = ""
    /\ IF key \notin DOMAIN data_
       THEN /\ ret' = FALSE
            /\ UNCHANGED <<data_, serverKeys_, writtenSinceAdd>>
       ELSE LET serverId == getNode(ring_, key)
            IN  /\ serverKeys_' = IF serverId # <<>>
                                  THEN removeFromServerKeys(serverKeys_, key, serverId)
                                  ELSE serverKeys_
                /\ data_' = MapErase(data_, key)
                /\ writtenSinceAdd' = writtenSinceAdd \ {key}
                /\ ret' = TRUE
    /\ UNCHANGED <<virtualNodesPerNode_, ring_, nodeToHashes_>>
    /\ UNCHANGED <<threadVars, shortenerVars>>

\* clear that leaves out hashRing_->clear().
clear_KeepsRing ==
    /\ op' = Call("clear", <<>>, "")
    /\ UNCHANGED ringHistory
    /\ exc' = ""
    /\ ret' = FALSE
    /\ data_' = EmptyMap
    /\ serverKeys_' = EmptyMap
    /\ writtenSinceAdd' = {}
    /\ UNCHANGED <<virtualNodesPerNode_, ring_, nodeToHashes_>>
    /\ UNCHANGED <<threadVars, shortenerVars>>

\* KeyValueStore::clear.
clear ==
    /\ op' = Call("clear", <<>>, "")
    /\ UNCHANGED ringHistory
    /\ exc' = ""
    /\ ret' = FALSE
    /\ data_' = EmptyMap
    /\ serverKeys_' = EmptyMap
    /\ ring_' = EmptyMap
    /\ nodeToHashes_' = EmptyMap
    /\ writtenSinceAdd' = {}
    /\ UNCHANGED virtualNodesPerNode_
    /\ UNCHANGED <<threadVars, shortenerVars>>

\* The threads that call the store at the same time.
Threads == {1, 2}

\* A thread between two calls, having made `calls` calls. Inside a call
\* `entered` is the store as it was when the thread took the mutex.
IdleThread(calls) ==
    [pc |-> "idle", call |-> Call("none", <<>>, ""), result |-> FALSE,
     keysToReassign |-> <<>>, i |-> 0, serverId |-> <<>>, hashes |-> <<>>,
     inRing |-> FALSE,
     entered |-> [ring |-> EmptyMap, nodeToHashes |-> EmptyMap, data |-> EmptyMap,
                  serverKeys |-> EmptyMap],
     calls |-> calls]

\* KeyValueStore::KeyValueStore(virtualNodesPerNode), virtualNodesPerNode > 0.
\* A KeyValueStore as a value: what its constructor leaves.
EmptyStore ==
    [ring |-> EmptyMap, nodeToHashes |-> EmptyMap, data |-> EmptyMap,
     serverKeys |-> EmptyMap]

\* No UrlShortenerKV has been constructed.
NoShortener ==
    /\ baseUrl_ = <<>>
    /\ kvStore_ = EmptyStore
    /\ reverseKvStore_ = EmptyStore
    /\ nextId_ = 0
    /\ shortCodeIndex_ = <<>>

Init ==
    /\ virtualNodesPerNode_ \in 1..MaxVirtualNodes
    /\ ring_ = EmptyMap
    /\ nodeToHashes_ = EmptyMap
    /\ data_ = EmptyMap
    /\ serverKeys_ = EmptyMap
    /\ op = Call("construct", <<>>, "")
    /\ ret = FALSE
    /\ exc = ""
    /\ writtenSinceAdd = {}
    /\ ringHistory = [probed |-> FALSE, changed |-> FALSE, routed |-> EmptyMap]
    /\ threads = [t \in Threads |-> IdleThread(0)]
    /\ NoShortener
    /\ mutex_ = [store |-> 0, ring |-> 0]

\* The variables of the store around its ring.
storeVars == <<data_, serverKeys_, writtenSinceAdd>>

\* ConsistentHash::addNode, called on a ring of its own.
ConsistentHash_addNode(nodeName) ==
    /\ op' = Call("addNode", nodeName, "")
    /\ ret' = FALSE
    /\ IF nodeName = <<>>
       THEN /\ exc' = "invalid_argument"
            /\ ringHistory' = [ringHistory EXCEPT !.changed = FALSE]
            /\ UNCHANGED <<ring_, nodeToHashes_>>
       ELSE LET r == addNode(ring_, nodeToHashes_, virtualNodesPerNode_, nodeName)
            IN  /\ exc' = ""
                /\ ring_' = r.ring
                /\ nodeToHashes_' = r.nodeToHashes
                /\ ringHistory' =
                       [probed |-> \/ ringHistory.probed
                                   \/ \E i \in 0..(virtualNodesPerNode_ - 1) :
                                          r.nodeToHashes[nodeName][i + 1]
                                              # hash(getVirtualNodeName(nodeName, i)),
                        changed |-> r.ring # ring_,
                        routed |-> IF r.ring = ring_ THEN ringHistory.routed ELSE EmptyMap]
    /\ UNCHANGED <<virtualNodesPerNode_, storeVars>>
    /\ UNCHANGED <<threadVars, shortenerVars>>

\* ConsistentHash::removeNode, called on a ring of its own.
ConsistentHash_removeNode(nodeName) ==
    LET r == removeNode(ring_, nodeToHashes_, nodeName)
    IN  /\ op' = Call("removeNode", nodeName, "")
        /\ exc' = ""
        /\ ret' = r.ret
        /\ ring_' = r.ring
        /\ nodeToHashes_' = r.nodeToHashes
        /\ ringHistory' = [ringHistory EXCEPT
                               !.changed = r.ring # ring_,
                               !.routed = IF r.ring = ring_ THEN @ ELSE EmptyMap]
        /\ UNCHANGED <<virtualNodesPerNode_, storeVars>>
        /\ UNCHANGED <<threadVars, shortenerVars>>

\* ConsistentHash::clear without nodeToHashes_.clear(): the side index keeps
\* the nodes of the emptied ring.
ConsistentHash_clear_KeepsSideIndex ==
    /\ op' = Call("clear", <<>>, "")
    /\ exc' = ""
    /\ ret' = FALSE
    /\ ring_' = EmptyMap
    /\ ringHistory' = [probed |-> FALSE, changed |-> ring_ # EmptyMap, routed |-> IF ring_ = EmptyMap THEN ringHistory.routed ELSE EmptyMap]
    /\ UNCHANGED <<nodeToHashes_, virtualNodesPerNode_, storeVars>>
    /\ UNCHANGED <<threadVars, shortenerVars>>

\* ConsistentHash::clear, called on a ring of its own.
ConsistentHash_clear ==
    /\ op' = Call("clear", <<>>, "")
    /\ exc' = ""
    /\ ret' = FALSE
    /\ ring_' = EmptyMap
    /\ nodeToHashes_' = EmptyMap
    /\ ringHistory' = [probed |-> FALSE,
                       changed |-> ring_ # EmptyMap,
                       routed |-> IF ring_ = EmptyMap THEN ringHistory.routed ELSE EmptyMap]
    /\ UNCHANGED <<virtualNodesPerNode_, storeVars>>
    /\ UNCHANGED <<threadVars, shortenerVars>>

\* The variables of the ring itself.
ringVars == <<virtualNodesPerNode_, ring_, nodeToHashes_>>

\* What routed holds for key once getNode has returned node.
Routed(routed, key, node) ==
    MapPut(routed, key, [node |-> node, again |-> key \in DOMAIN routed])

\* getNode reading the position with ring_[keyHash]: operator[] inserts an
\* empty owner at a vacant position.
ConsistentHash_getNode_Inserts(key) ==
    /\ op' = Call("getNode", key, "")
    /\ exc' = ""
    /\ ret' = IF hash(key) \in DOMAIN ring_ THEN ring_[hash(key)] ELSE <<>>
    /\ ring_' = IF hash(key) \in DOMAIN ring_ THEN ring_ ELSE MapPut(ring_, hash(key), <<>>)
    /\ ringHistory' = [ringHistory EXCEPT !.changed = FALSE,
                                          !.routed = Routed(@, key, ret')]
    /\ UNCHANGED <<virtualNodesPerNode_, nodeToHashes_, storeVars>>
    /\ UNCHANGED <<threadVars, shortenerVars>>

\* ConsistentHash::getNode, called on a ring of its own.
ConsistentHash_getNode(key) ==
    /\ op' = Call("getNode", key, "")
    /\ exc' = ""
    /\ ret' = getNode(ring_, key)
    /\ ringHistory' = [ringHistory EXCEPT !.changed = FALSE,
                                          !.routed = Routed(@, key, getNode(ring_, key))]
    /\ UNCHANGED <<ringVars, storeVars>>
    /\ UNCHANGED <<threadVars, shortenerVars>>

\* ConsistentHash::getNodes, called on a ring of its own.
ConsistentHash_getNodes(key, count) ==
    /\ op' = Call("getNodes", key, count)
    /\ exc' = ""
    /\ ret' = getNodes(ring_, key, count)
    /\ ringHistory' = [ringHistory EXCEPT !.changed = FALSE]
    /\ UNCHANGED <<ringVars, storeVars>>
    /\ UNCHANGED <<threadVars, shortenerVars>>

\* ConsistentHash::getNodeCount, called on a ring of its own.
ConsistentHash_getNodeCount ==
    /\ op' = Call("getNodeCount", <<>>, "")
    /\ exc' = ""
    /\ ret' = getNodeCount(nodeToHashes_)
    /\ ringHistory' = [ringHistory EXCEPT !.changed = FALSE]
    /\ UNCHANGED <<ringVars, storeVars>>
    /\ UNCHANGED <<threadVars, shortenerVars>>

\* ConsistentHash::getVirtualNodeCount, called on a ring of its own.
ConsistentHash_getVirtualNodeCount ==
    /\ op' = Call("getVirtualNodeCount", <<>>, "")
    /\ exc' = ""
    /\ ret' = getVirtualNodeCount(ring_)
    /\ ringHistory' = [ringHistory EXCEPT !.changed = FALSE]
    /\ UNCHANGED <<ringVars, storeVars>>
    /\ UNCHANGED <<threadVars, shortenerVars>>

\* ConsistentHash::hasNode, called on a ring of its own.
ConsistentHash_hasNode(nodeName) ==
    /\ op' = Call("hasNode", nodeName, "")
    /\ exc' = ""
    /\ ret' = hasNode(nodeToHashes_, nodeName)
    /\ ringHistory' = [ringHistory EXCEPT !.changed = FALSE]
    /\ UNCHANGED <<ringVars, storeVars>>
    /\ UNCHANGED <<threadVars, shortenerVars>>

\* ConsistentHash::getAllNodes, called on a ring of its own.
ConsistentHash_getAllNodes ==
    /\ op' = Call("getAllNodes", <<>>, "")
    /\ exc' = ""
    /\ ret' = getAllNodes(nodeToHashes_)
    /\ ringHistory' = [ringHistory EXCEPT !.changed = FALSE]
    /\ UNCHANGED <<ringVars, storeVars>>
    /\ UNCHANGED <<threadVars, shortenerVars>>

\* ConsistentHash::getDistributionStats, called on a ring of its own.
ConsistentHash_getDistributionStats(numTestKeys) ==
    /\ op' = Call("getDistributionStats", <<>>, numTestKeys)
    /\ exc' = ""
    /\ ret' = getDistributionStats(ring_, nodeToHashes_, numTestKeys)
    /\ ringHistory' = [ringHistory EXCEPT !.changed = FALSE]
    /\ UNCHANGED <<ringVars, storeVars>>
    /\ UNCHANGED <<threadVars, shortenerVars>>

\* A reading call of the store that returns result: nothing but op, ret and exc
\* changes.
StoreRead(name, id, result) ==
    /\ op' = Call(name, id, "")
    /\ exc' = ""
    /\ ret' = result
    /\ UNCHANGED <<ringVars, storeVars, ringHistory>>
    /\ UNCHANGED <<threadVars, shortenerVars>>

\* get reading the value with data_[key]: operator[] inserts an empty value
\* for a key that is not there.
KeyValueStore_get_Inserts(key) ==
    /\ op' = Call("get", key, "")
    /\ exc' = ""
    /\ ret' = get(data_, key)
    /\ data_' = IF key \in DOMAIN data_ THEN data_ ELSE MapPut(data_, key, "")
    /\ UNCHANGED <<ringVars, serverKeys_, writtenSinceAdd, ringHistory>>
    /\ UNCHANGED <<threadVars, shortenerVars>>

\* KeyValueStore::get.
KeyValueStore_get(key) == StoreRead("get", key, get(data_, key))

\* KeyValueStore::exists.
KeyValueStore_exists(key) == StoreRead("exists", key, exists(data_, key))

\* KeyValueStore::getKeysForServer.
KeyValueStore_getKeysForServer(serverId) ==
    StoreRead("getKeysForServer", serverId, getKeysForServer(serverKeys_, serverId))

\* KeyValueStore::getServers.
KeyValueStore_getServers == StoreRead("getServers", <<>>, getServers(serverKeys_))

\* KeyValueStore::getServerForKey.
KeyValueStore_getServerForKey(key) ==
    StoreRead("getServerForKey", key, getServerForKey(ring_, key))

\* KeyValueStore::getStats.
KeyValueStore_getStats == StoreRead("getStats", <<>>, getStats(serverKeys_))

\* KeyValueStore::getServerCount.
KeyValueStore_getServerCount ==
    StoreRead("getServerCount", <<>>, getServerCount(nodeToHashes_))

\* KeyValueStore::getTotalEntries.
KeyValueStore_getTotalEntries ==
    StoreRead("getTotalEntries", <<>>, getTotalEntries(data_))

Next ==
    \/ \E serverId \in ServerIds : addServer(serverId)
    \/ \E serverId \in ServerIds : removeServer(serverId)
    \/ \E key \in Keys, value \in Values : set(key, value)
    \/ \E key \in Keys : remove(key)
    \/ clear

Spec == Init /\ [][Next]_vars

\* A ConsistentHash used on its own: ConsistentHash::ConsistentHash(virtualNodesPerNode).
RingNext ==
    \/ \E nodeName \in NodeNames : ConsistentHash_addNode(nodeName)
    \/ \E nodeName \in NodeNames : ConsistentHash_removeNode(nodeName)
    \/ ConsistentHash_clear
    \/ \E key \in RouteKeys : ConsistentHash_getNode(key)
    \/ \E key \in RouteKeys, count \in {0, MaxCount - 1} : ConsistentHash_getNodes(key, count)
    \/ ConsistentHash_getNodeCount
    \/ ConsistentHash_getVirtualNodeCount
    \/ \E nodeName \in {<<>>, <<105>>} : ConsistentHash_hasNode(nodeName)
    \/ ConsistentHash_getAllNodes
    \/ ConsistentHash_getDistributionStats(MaxTestKeys)

RingSpec == Init /\ [][RingNext]_vars

\* No ring has been constructed yet: virtualNodesPerNode_ is 0 until a
\* constructor has returned.
ConstructInit ==
    /\ virtualNodesPerNode_ = 0
    /\ ring_ = EmptyMap
    /\ nodeToHashes_ = EmptyMap
    /\ data_ = EmptyMap
    /\ serverKeys_ = EmptyMap
    /\ op = Call("none", <<>>, "")
    /\ ret = FALSE
    /\ exc = ""
    /\ writtenSinceAdd = {}
    /\ ringHistory = [probed |-> FALSE, changed |-> FALSE, routed |-> EmptyMap]
    /\ threads = [t \in Threads |-> IdleThread(0)]
    /\ NoShortener
    /\ mutex_ = [store |-> 0, ring |-> 0]

\* The constructor throwing for a negative argument only: 0 is accepted.
ConsistentHash_ConsistentHash_AcceptsZero(virtualNodesPerNode) ==
    /\ virtualNodesPerNode_ = 0
    /\ op' = Call("ConsistentHash", <<>>, virtualNodesPerNode)
    /\ ret' = FALSE
    /\ exc' = IF virtualNodesPerNode < 0 THEN "invalid_argument" ELSE ""
    /\ virtualNodesPerNode_' = IF virtualNodesPerNode < 0 THEN 0 ELSE virtualNodesPerNode
    /\ UNCHANGED <<ring_, nodeToHashes_, storeVars, ringHistory>>
    /\ UNCHANGED <<threadVars, shortenerVars>>

\* ConsistentHash::ConsistentHash, called while there is no ring: it throws for
\* virtualNodesPerNode <= 0, and there is still no ring then.
ConsistentHash_ConsistentHash(virtualNodesPerNode) ==
    /\ virtualNodesPerNode_ = 0
    /\ op' = Call("ConsistentHash", <<>>, virtualNodesPerNode)
    /\ ret' = FALSE
    /\ exc' = IF virtualNodesPerNode <= 0 THEN "invalid_argument" ELSE ""
    /\ virtualNodesPerNode_' = IF virtualNodesPerNode <= 0 THEN 0 ELSE virtualNodesPerNode
    /\ UNCHANGED <<ring_, nodeToHashes_, storeVars, ringHistory>>
    /\ UNCHANGED <<threadVars, shortenerVars>>

\* A ConsistentHash from before its construction on: the calls of RingNext are
\* made on a ring that a constructor has returned.
ConstructNext ==
    \/ \E virtualNodesPerNode \in (-1)..MaxVirtualNodes :
          ConsistentHash_ConsistentHash(virtualNodesPerNode)
    \/ virtualNodesPerNode_ > 0 /\ RingNext

ConstructSpec == ConstructInit /\ [][ConstructNext]_vars

\* A KeyValueStore with all its public operations, the reading ones included.
StoreNext ==
    \/ \E serverId \in ReadServerIds : addServer(serverId)
    \/ \E serverId \in ReadServerIds : removeServer(serverId)
    \/ \E key \in ReadKeys, value \in Values : set(key, value)
    \/ \E key \in ReadKeys : remove(key)
    \/ clear
    \/ \E key \in ReadKeys : KeyValueStore_get(key)
    \/ \E key \in ReadKeys : KeyValueStore_exists(key)
    \/ \E serverId \in ReadServerIds : KeyValueStore_getKeysForServer(serverId)
    \/ KeyValueStore_getServers
    \/ \E key \in ReadKeys : KeyValueStore_getServerForKey(key)
    \/ KeyValueStore_getStats
    \/ KeyValueStore_getServerCount
    \/ KeyValueStore_getTotalEntries

StoreSpec == Init /\ [][StoreNext]_vars

-----------------------------------------------------------------------------
(* Several threads calling one KeyValueStore, or one ConsistentHash on its
   own. A call is a sequence of steps: each statement that reads or writes the
   store or its ring is a step, and so is each lock_guard, which waits until
   the mutex is free. *)

\* How many calls one thread makes.
MaxCalls == 2

\* The server ids and the keys the threads call with.
ThreadServerIds == {<<97>>, <<98>>}
ThreadKeys == {<<>>, <<107>>, <<120>>}

\* The calls a thread can make.
ThreadCalls ==
    {Call(name, s, "") : name \in {"addServer", "removeServer"}, s \in ThreadServerIds}
    \cup {Call("set", k, "v1") : k \in ThreadKeys}
    \cup {Call("exists", <<107>>, ""), Call("remove", <<107>>, "")}

\* The calls a thread can make on a ring shared on its own.
RingThreadCalls ==
    {Call(name, n, "") : name \in {"addNode", "removeNode"}, n \in ThreadServerIds}
    \cup {Call("getNode", <<107>>, "")}

\* The threads share a KeyValueStore; if not, a ConsistentHash.
SharedStore == "store" \in DOMAIN mutex_

\* The variables that record the last call, which a step inside a call leaves
\* alone.
historyVars == <<op, ret, exc, writtenSinceAdd, ringHistory>>

\* The store and its ring as they are now.
StoreState ==
    [ring |-> ring_, nodeToHashes |-> nodeToHashes_, data |-> data_,
     serverKeys |-> serverKeys_]

\* The first statement of each operation after its lock_guard.
FirstStatement(name) ==
    CASE name = "addServer" -> "addServer_find"
      [] name = "removeServer" -> "removeServer_find"
      [] name = "set" -> "set_getNodeCount"
      [] name = "exists" -> "exists_find"
      [] name = "remove" -> "remove_find"
      [] name = "addNode" -> "addNode_find"
      [] name = "removeNode" -> "removeNode_find"
      [] name = "getNode" -> "getNode_lower_bound"

\* The statements that call an operation of the ring, which takes the mutex of
\* the ring for as long as it runs.
RingCalls == {"addServer_addNode", "removeServer_removeNode", "removeServer_getNode",
              "set_getNodeCount", "set_getNode", "remove_getNode"}

\* The thread goes on to a statement, or to its return with a result.
Goto(t, pc) == [threads EXCEPT ![t].pc = pc]
Return(t, result) == [threads EXCEPT ![t].pc = "return", ![t].result = result]

\* The ring operation called by the statement returns: its lock_guard goes out
\* of scope.
RingReturn(t, th) ==
    /\ threads' = [th EXCEPT ![t].inRing = FALSE]
    /\ mutex_' = [mutex_ EXCEPT !.ring = 0]

\* A thread calls an operation of the store.
Thread_call(t, call) ==
    /\ SharedStore
    /\ threads[t].pc = "idle"
    /\ threads[t].calls < MaxCalls
    /\ threads' = [threads EXCEPT ![t].pc = IF call.name = "set" THEN "set_empty"
                                             ELSE "lock_guard",
                                  ![t].call = call,
                                  ![t].calls = @ + 1]
    /\ UNCHANGED <<ringVars, data_, serverKeys_, historyVars, shortenerVars, mutex_>>

\* set: if (key.empty()) return false, before the lock is taken.
Thread_set_empty(t) ==
    /\ threads[t].pc = "set_empty"
    /\ IF threads[t].call.id = <<>>
       THEN /\ threads' = [threads EXCEPT ![t] = IdleThread(@.calls)]
            /\ op' = threads[t].call
            /\ ret' = FALSE
            /\ exc' = ""
       ELSE /\ threads' = Goto(t, "lock_guard")
            /\ UNCHANGED <<op, ret, exc>>
    /\ UNCHANGED <<ringVars, data_, serverKeys_, writtenSinceAdd, ringHistory, mutex_,
                   shortenerVars>>

\* lock_guard taking the mutex of the store whether or not it is free.
Thread_lock_guard_NoWait(t) ==
    /\ threads[t].pc = "lock_guard"
    /\ mutex_' = [mutex_ EXCEPT !.store = t]
    /\ threads' = [threads EXCEPT ![t].pc = FirstStatement(threads[t].call.name),
                                  ![t].entered = StoreState]
    /\ UNCHANGED <<ringVars, data_, serverKeys_, historyVars, shortenerVars>>

\* std::lock_guard<std::mutex> lock(mutex_) of an operation of the store: the
\* thread waits until the mutex is free and takes it.
Thread_lock_guard(t) ==
    /\ threads[t].pc = "lock_guard"
    /\ mutex_.store = 0
    /\ mutex_' = [mutex_ EXCEPT !.store = t]
    /\ threads' = [threads EXCEPT ![t].pc = FirstStatement(threads[t].call.name),
                                  ![t].entered = StoreState]
    /\ UNCHANGED <<ringVars, data_, serverKeys_, historyVars, shortenerVars>>

\* std::lock_guard<std::mutex> lock(mutex_) of an operation of the ring, called
\* by a statement of the store.
Thread_ring_lock_guard(t) ==
    /\ threads[t].pc \in RingCalls
    /\ ~threads[t].inRing
    /\ mutex_.ring = 0
    /\ mutex_' = [mutex_ EXCEPT !.ring = t]
    /\ threads' = [threads EXCEPT ![t].inRing = TRUE]
    /\ UNCHANGED <<ringVars, data_, serverKeys_, historyVars, shortenerVars>>

\* addServer: if (serverKeys_.find(serverId) != serverKeys_.end()) return false.
Thread_addServer_find(t) ==
    /\ threads[t].pc = "addServer_find"
    /\ threads' = IF threads[t].call.id \in DOMAIN serverKeys_
                  THEN Return(t, FALSE)
                  ELSE Goto(t, "addServer_addNode")
    /\ UNCHANGED <<ringVars, data_, serverKeys_, historyVars, shortenerVars, mutex_>>

\* addServer: hashRing_->addNode(serverId).
Thread_addServer_addNode(t) ==
    /\ threads[t].pc = "addServer_addNode"
    /\ threads[t].inRing
    /\ ring_' = addNode(ring_, nodeToHashes_, virtualNodesPerNode_,
                        threads[t].call.id).ring
    /\ nodeToHashes_' = addNode(ring_, nodeToHashes_, virtualNodesPerNode_,
                                threads[t].call.id).nodeToHashes
    /\ RingReturn(t, Goto(t, "addServer_init"))
    /\ UNCHANGED <<virtualNodesPerNode_, data_, serverKeys_, historyVars, shortenerVars>>

\* addServer: serverKeys_[serverId] = std::vector<std::string>(); return true.
Thread_addServer_init(t) ==
    /\ threads[t].pc = "addServer_init"
    /\ serverKeys_' = MapPut(serverKeys_, threads[t].call.id, <<>>)
    /\ threads' = Return(t, TRUE)
    /\ UNCHANGED <<ringVars, data_, historyVars, shortenerVars, mutex_>>

\* removeServer: the find, the early return, and the copy of the key list.
Thread_removeServer_find(t) ==
    /\ threads[t].pc = "removeServer_find"
    /\ threads' = IF threads[t].call.id \notin DOMAIN serverKeys_
                  THEN Return(t, FALSE)
                  ELSE [threads EXCEPT ![t].pc = "removeServer_removeNode",
                                       ![t].keysToReassign = serverKeys_[threads[t].call.id]]
    /\ UNCHANGED <<ringVars, data_, serverKeys_, historyVars, shortenerVars, mutex_>>

\* removeServer: hashRing_->removeNode(serverId).
Thread_removeServer_removeNode(t) ==
    /\ threads[t].pc = "removeServer_removeNode"
    /\ threads[t].inRing
    /\ ring_' = removeNode(ring_, nodeToHashes_, threads[t].call.id).ring
    /\ nodeToHashes_' = removeNode(ring_, nodeToHashes_, threads[t].call.id).nodeToHashes
    /\ RingReturn(t, Goto(t, "removeServer_erase"))
    /\ UNCHANGED <<virtualNodesPerNode_, data_, serverKeys_, historyVars, shortenerVars>>

\* removeServer: serverKeys_.erase(it).
Thread_removeServer_erase(t) ==
    /\ threads[t].pc = "removeServer_erase"
    /\ serverKeys_' = MapErase(serverKeys_, threads[t].call.id)
    /\ threads' = [threads EXCEPT ![t].pc = "removeServer_loop", ![t].i = 1]
    /\ UNCHANGED <<ringVars, data_, historyVars, shortenerVars, mutex_>>

\* removeServer: the head of the loop over keysToReassign and its test
\* data_.find(key) != data_.end(); return true after the last key.
Thread_removeServer_loop(t) ==
    /\ threads[t].pc = "removeServer_loop"
    /\ LET th == threads[t]
       IN  threads' = IF th.i > Len(th.keysToReassign) THEN Return(t, TRUE)
                      ELSE IF th.keysToReassign[th.i] \in DOMAIN data_
                      THEN Goto(t, "removeServer_getNode")
                      ELSE [threads EXCEPT ![t].i = @ + 1]
    /\ UNCHANGED <<ringVars, data_, serverKeys_, historyVars, shortenerVars, mutex_>>

\* removeServer: newServer = hashRing_->getNode(key) and, for a newServer that
\* is not empty, updateServerKeys(key, newServer).
Thread_removeServer_getNode(t) ==
    /\ threads[t].pc = "removeServer_getNode"
    /\ threads[t].inRing
    /\ LET key == threads[t].keysToReassign[threads[t].i]
           newServer == getNode(ring_, key)
       IN  serverKeys_' = IF newServer # <<>>
                          THEN updateServerKeys(serverKeys_, key, newServer)
                          ELSE serverKeys_
    /\ RingReturn(t, [threads EXCEPT ![t].pc = "removeServer_loop", ![t].i = @ + 1])
    /\ UNCHANGED <<ringVars, data_, historyVars, shortenerVars>>

\* set returning from its test of getNodeCount without giving the mutex of the
\* store back.
Thread_set_getNodeCount_KeepsMutex(t) ==
    /\ threads[t].pc = "set_getNodeCount"
    /\ threads[t].inRing
    /\ IF getNodeCount(nodeToHashes_) = 0
       THEN /\ threads' = [threads EXCEPT ![t] = IdleThread(@.calls)]
            /\ mutex_' = [mutex_ EXCEPT !.ring = 0]
            /\ op' = threads[t].call
            /\ ret' = FALSE
            /\ exc' = ""
       ELSE /\ RingReturn(t, Goto(t, "set_getNode"))
            /\ UNCHANGED <<op, ret, exc>>
    /\ UNCHANGED <<ringVars, data_, serverKeys_, writtenSinceAdd, ringHistory,
                   shortenerVars>>

\* set: if (hashRing_->getNodeCount() == 0) return false.
Thread_set_getNodeCount(t) ==
    /\ threads[t].pc = "set_getNodeCount"
    /\ threads[t].inRing
    /\ RingReturn(t, IF getNodeCount(nodeToHashes_) = 0
                     THEN Return(t, FALSE)
                     ELSE Goto(t, "set_getNode"))
    /\ UNCHANGED <<ringVars, data_, serverKeys_, historyVars, shortenerVars>>

\* set giving the mutex of the store back once it has asked the ring for the
\* server: the rest of set runs without it.
Thread_set_getNode_Unlocks(t) ==
    /\ threads[t].pc = "set_getNode"
    /\ threads[t].inRing
    /\ LET serverId == getNode(ring_, threads[t].call.id)
       IN  threads' = [IF serverId = <<>>
                       THEN Return(t, FALSE)
                       ELSE [threads EXCEPT ![t].pc = "set_erase",
                                            ![t].serverId = serverId]
                          EXCEPT ![t].inRing = FALSE]
    /\ mutex_' = [mutex_ EXCEPT !.ring = 0, !.store = 0]
    /\ UNCHANGED <<ringVars, data_, serverKeys_, historyVars, shortenerVars>>

\* set: serverId = hashRing_->getNode(key); if (serverId.empty()) return false.
Thread_set_getNode(t) ==
    /\ threads[t].pc = "set_getNode"
    /\ threads[t].inRing
    /\ LET serverId == getNode(ring_, threads[t].call.id)
       IN  RingReturn(t, IF serverId = <<>>
                         THEN Return(t, FALSE)
                         ELSE [threads EXCEPT ![t].pc = "set_erase",
                                              ![t].serverId = serverId])
    /\ UNCHANGED <<ringVars, data_, serverKeys_, historyVars, shortenerVars>>

\* set: for a key that data_ holds, the loop that erases it from the first key
\* list holding it.
Thread_set_erase(t) ==
    /\ threads[t].pc = "set_erase"
    /\ serverKeys_' = IF threads[t].call.id \in DOMAIN data_
                      THEN eraseFromOldServer(serverKeys_, threads[t].call.id)
                      ELSE serverKeys_
    /\ threads' = Goto(t, "set_store")
    /\ UNCHANGED <<ringVars, data_, historyVars, shortenerVars, mutex_>>

\* set: data_[key] = value; updateServerKeys(key, serverId); return true.
Thread_set_store(t) ==
    /\ threads[t].pc = "set_store"
    /\ data_' = MapPut(data_, threads[t].call.id, threads[t].call.value)
    /\ serverKeys_' = updateServerKeys(serverKeys_, threads[t].call.id, threads[t].serverId)
    /\ threads' = Return(t, TRUE)
    /\ UNCHANGED <<ringVars, historyVars, shortenerVars, mutex_>>

\* exists: return data_.find(key) != data_.end().
Thread_exists_find(t) ==
    /\ threads[t].pc = "exists_find"
    /\ threads' = Return(t, exists(data_, threads[t].call.id))
    /\ UNCHANGED <<ringVars, data_, serverKeys_, historyVars, shortenerVars, mutex_>>

\* remove: it = data_.find(key); if (it == data_.end()) return false.
Thread_remove_find(t) ==
    /\ threads[t].pc = "remove_find"
    /\ threads' = IF threads[t].call.id \notin DOMAIN data_
                  THEN Return(t, FALSE)
                  ELSE Goto(t, "remove_getNode")
    /\ UNCHANGED <<ringVars, data_, serverKeys_, historyVars, shortenerVars, mutex_>>

\* remove: serverId = hashRing_->getNode(key) and, for a serverId that is not
\* empty, removeFromServerKeys(key, serverId).
Thread_remove_getNode(t) ==
    /\ threads[t].pc = "remove_getNode"
    /\ threads[t].inRing
    /\ LET serverId == getNode(ring_, threads[t].call.id)
       IN  serverKeys_' = IF serverId # <<>>
                          THEN removeFromServerKeys(serverKeys_, threads[t].call.id, serverId)
                          ELSE serverKeys_
    /\ RingReturn(t, Goto(t, "remove_erase"))
    /\ UNCHANGED <<ringVars, data_, historyVars, shortenerVars>>

\* remove: data_.erase(it); return true.
Thread_remove_erase(t) ==
    /\ threads[t].pc = "remove_erase"
    /\ data_' = MapErase(data_, threads[t].call.id)
    /\ threads' = Return(t, TRUE)
    /\ UNCHANGED <<ringVars, serverKeys_, historyVars, shortenerVars, mutex_>>

\* The return of an operation that holds the mutex of the store: the
\* lock_guard goes out of scope and the mutex is free.
Thread_return(t) ==
    /\ threads[t].pc = "return"
    /\ mutex_' = [mutex_ EXCEPT !.store = 0]
    /\ threads' = [threads EXCEPT ![t] = IdleThread(@.calls)]
    /\ op' = threads[t].call
    /\ ret' = threads[t].result
    /\ exc' = ""
    /\ UNCHANGED <<ringVars, data_, serverKeys_, writtenSinceAdd, ringHistory,
                   shortenerVars>>

\* A thread calls an operation of the ring the threads share.
Thread_ring_call(t, call) ==
    /\ ~SharedStore
    /\ threads[t].pc = "idle"
    /\ threads[t].calls < MaxCalls
    /\ threads' = [threads EXCEPT ![t].pc = "ring_lock_guard",
                                  ![t].call = call,
                                  ![t].calls = @ + 1]
    /\ UNCHANGED <<ringVars, data_, serverKeys_, historyVars, shortenerVars, mutex_>>

\* std::lock_guard<std::mutex> lock(mutex_) of an operation of the ring called
\* by the thread itself.
Thread_ConsistentHash_lock_guard(t) ==
    /\ threads[t].pc = "ring_lock_guard"
    /\ mutex_.ring = 0
    /\ mutex_' = [mutex_ EXCEPT !.ring = t]
    /\ threads' = [threads EXCEPT ![t].pc = FirstStatement(threads[t].call.name),
                                  ![t].entered = StoreState]
    /\ UNCHANGED <<ringVars, data_, serverKeys_, historyVars, shortenerVars>>

\* addNode: if (nodeToHashes_.find(nodeName) != nodeToHashes_.end()) return.
Thread_addNode_find(t) ==
    /\ threads[t].pc = "addNode_find"
    /\ threads' = IF threads[t].call.id \in DOMAIN nodeToHashes_
                  THEN [threads EXCEPT ![t].pc = "ring_return"]
                  ELSE Goto(t, "addNode_insert")
    /\ UNCHANGED <<ringVars, data_, serverKeys_, historyVars, shortenerVars, mutex_>>

\* addNode: the loop that puts the virtual nodes on ring_ and collects their
\* positions in hashes.
Thread_addNode_insert(t) ==
    /\ threads[t].pc = "addNode_insert"
    /\ ring_' = addVirtualNodes([ring |-> ring_, hashes |-> <<>>], threads[t].call.id,
                                0, virtualNodesPerNode_).ring
    /\ threads' = [threads EXCEPT
                       ![t].pc = "addNode_record",
                       ![t].hashes = addVirtualNodes([ring |-> ring_, hashes |-> <<>>],
                                                     threads[t].call.id, 0,
                                                     virtualNodesPerNode_).hashes]
    /\ UNCHANGED <<virtualNodesPerNode_, nodeToHashes_, data_, serverKeys_, historyVars,
                   mutex_, shortenerVars>>

\* addNode: nodeToHashes_[nodeName] = std::move(hashes).
Thread_addNode_record(t) ==
    /\ threads[t].pc = "addNode_record"
    /\ nodeToHashes_' = MapPut(nodeToHashes_, threads[t].call.id, threads[t].hashes)
    /\ threads' = [threads EXCEPT ![t].pc = "ring_return"]
    /\ UNCHANGED <<virtualNodesPerNode_, ring_, data_, serverKeys_, historyVars, mutex_,
                   shortenerVars>>

\* removeNode: it = nodeToHashes_.find(nodeName); return false when it is not
\* there.
Thread_removeNode_find(t) ==
    /\ threads[t].pc = "removeNode_find"
    /\ threads' = IF threads[t].call.id \notin DOMAIN nodeToHashes_
                  THEN [threads EXCEPT ![t].pc = "ring_return"]
                  ELSE [threads EXCEPT ![t].pc = "removeNode_erase",
                                       ![t].hashes = nodeToHashes_[threads[t].call.id]]
    /\ UNCHANGED <<ringVars, data_, serverKeys_, historyVars, shortenerVars, mutex_>>

\* removeNode: the loop ring_.erase(hashValue) over the positions of the node.
Thread_removeNode_erase(t) ==
    /\ threads[t].pc = "removeNode_erase"
    /\ ring_' = [p \in DOMAIN ring_ \ Range(threads[t].hashes) |-> ring_[p]]
    /\ threads' = Goto(t, "removeNode_eraseNode")
    /\ UNCHANGED <<virtualNodesPerNode_, nodeToHashes_, data_, serverKeys_, historyVars,
                   mutex_, shortenerVars>>

\* removeNode: nodeToHashes_.erase(it); return true.
Thread_removeNode_eraseNode(t) ==
    /\ threads[t].pc = "removeNode_eraseNode"
    /\ nodeToHashes_' = MapErase(nodeToHashes_, threads[t].call.id)
    /\ threads' = [threads EXCEPT ![t].pc = "ring_return", ![t].result = TRUE]
    /\ UNCHANGED <<virtualNodesPerNode_, ring_, data_, serverKeys_, historyVars, mutex_,
                   shortenerVars>>

\* getNode: the lookup on ring_ and the node returned.
Thread_getNode_lower_bound(t) ==
    /\ threads[t].pc = "getNode_lower_bound"
    /\ threads' = [threads EXCEPT ![t].pc = "ring_return",
                                  ![t].result = getNode(ring_, threads[t].call.id)]
    /\ UNCHANGED <<ringVars, data_, serverKeys_, historyVars, shortenerVars, mutex_>>

\* The return of an operation of the ring called by the thread itself: the
\* mutex of the ring is free.
Thread_ring_return(t) ==
    /\ threads[t].pc = "ring_return"
    /\ mutex_' = [mutex_ EXCEPT !.ring = 0]
    /\ threads' = [threads EXCEPT ![t] = IdleThread(@.calls)]
    /\ op' = threads[t].call
    /\ ret' = threads[t].result
    /\ exc' = ""
    /\ UNCHANGED <<ringVars, data_, serverKeys_, writtenSinceAdd, ringHistory,
                   shortenerVars>>

\* What a thread does once it has made a call, up to the return of the call.
ThreadRun(t) ==
    \/ Thread_set_empty(t)
    \/ Thread_lock_guard(t)
    \/ Thread_ring_lock_guard(t)
    \/ Thread_addServer_find(t)
    \/ Thread_addServer_addNode(t)
    \/ Thread_addServer_init(t)
    \/ Thread_removeServer_find(t)
    \/ Thread_removeServer_removeNode(t)
    \/ Thread_removeServer_erase(t)
    \/ Thread_removeServer_loop(t)
    \/ Thread_removeServer_getNode(t)
    \/ Thread_set_getNodeCount(t)
    \/ Thread_set_getNode(t)
    \/ Thread_set_erase(t)
    \/ Thread_set_store(t)
    \/ Thread_exists_find(t)
    \/ Thread_remove_find(t)
    \/ Thread_remove_getNode(t)
    \/ Thread_remove_erase(t)
    \/ Thread_return(t)
    \/ Thread_ConsistentHash_lock_guard(t)
    \/ Thread_addNode_find(t)
    \/ Thread_addNode_insert(t)
    \/ Thread_addNode_record(t)
    \/ Thread_removeNode_find(t)
    \/ Thread_removeNode_erase(t)
    \/ Thread_removeNode_eraseNode(t)
    \/ Thread_getNode_lower_bound(t)
    \/ Thread_ring_return(t)

ThreadNext ==
    \E t \in Threads :
        \/ \E call \in ThreadCalls : Thread_call(t, call)
        \/ \E call \in RingThreadCalls : Thread_ring_call(t, call)
        \/ ThreadRun(t)

\* A store, or a ring on its own, that no thread has called yet.
ThreadInit ==
    /\ virtualNodesPerNode_ \in 1..MaxVirtualNodes
    /\ ring_ = EmptyMap
    /\ nodeToHashes_ = EmptyMap
    /\ data_ = EmptyMap
    /\ serverKeys_ = EmptyMap
    /\ op = Call("construct", <<>>, "")
    /\ ret = FALSE
    /\ exc = ""
    /\ writtenSinceAdd = {}
    /\ ringHistory = [probed |-> FALSE, changed |-> FALSE, routed |-> EmptyMap]
    /\ threads = [t \in Threads |-> IdleThread(0)]
    /\ NoShortener
    /\ mutex_ \in {[store |-> 0, ring |-> 0], [ring |-> 0]}

\* The threads calling one store, or one ring.
ThreadSpec == ThreadInit /\ [][ThreadNext]_vars

-----------------------------------------------------------------------------
(* Properties of the store and of the ring. *)

\* How many times key occurs in the vector keys.
Occurrences(keys, key) == Cardinality({i \in DOMAIN keys : keys[i] = key})

\* The servers whose key list holds key.
Holders(key) == {s \in getServers(serverKeys_) : key \in Range(getKeysForServer(serverKeys_, s))}

C2_NoKeyUnderTwoServers ==
    \A s, t \in getServers(serverKeys_) :
        s # t => Range(getKeysForServer(serverKeys_, s))
                     \cap Range(getKeysForServer(serverKeys_, t)) = {}

\* C3: every key of data_ is in the key list of exactly one server.
C3_ExactlyOneOwner ==
    \A k \in DOMAIN data_ : Cardinality(Holders(k)) = 1

\* C4: a removeServer call, whatever it returns, leaves getTotalEntries() and
\* the results of get and exists for every key as they were.
C4_RemoveServerKeepsData ==
    [][op'.name = "removeServer" =>
          /\ getTotalEntries(data_') = getTotalEntries(data_)
          /\ \A k \in Keys : /\ get(data_', k) = get(data_, k)
                             /\ exists(data_', k) = exists(data_, k)]_vars

\* removeServer returned true on a store holding both keys, one of them with
\* no server left to hold it.
C4_Witness ==
    /\ op.name = "removeServer" /\ ret = TRUE
    /\ getTotalEntries(data_) = 2
    /\ \E k \in DOMAIN data_ : Holders(k) = {}

\* C5: when removeServer(s) returns true and a server remains, every key that
\* was in s's key list and is in data_ is afterwards in the key list of the
\* server the reduced ring routes it to, and s is gone from getServers() and
\* from the keys of getStats().
C5_RemoveServerReassigns ==
    [][(/\ op'.name = "removeServer" /\ ret' = TRUE
        /\ getServerCount(nodeToHashes_') > 0) =>
          /\ \A k \in Range(getKeysForServer(serverKeys_, op'.id)) :
                 exists(data_', k) =>
                     k \in Range(getKeysForServer(serverKeys_', getNode(ring_', k)))
          /\ op'.id \notin getServers(serverKeys_')
          /\ op'.id \notin DOMAIN getStats(serverKeys_')]_vars

\* removeServer returned true, a server remains, and a key set since the last
\* addServer would be routed to the removed server were it still in the ring.
C5_Witness ==
    /\ op.name = "removeServer" /\ ret = TRUE
    /\ getServerCount(nodeToHashes_) > 0
    /\ \E k \in writtenSinceAdd :
           getNode(addNode(ring_, nodeToHashes_, virtualNodesPerNode_, op.id).ring, k) = op.id

\* What C6 says of a set call apart from getTotalEntries(): it returns false
\* exactly when the key is empty or there is no server, and then data_, the
\* key lists and the ring stay as they were.
SetFailsExactlyAndChangesNothing ==
    op'.name = "set" =>
        /\ (ret' = FALSE) <=> (op'.id = <<>> \/ getServerCount(nodeToHashes_) = 0)
        /\ ret' = FALSE => UNCHANGED <<data_, serverKeys_, ring_, nodeToHashes_>>

\* C6, as claimed: ... and a set on a store with no servers leaves
\* getTotalEntries() = 0.
C6_SetFailureLeavesNoEntries ==
    [][/\ SetFailsExactlyAndChangesNothing
       /\ (op'.name = "set" /\ getServerCount(nodeToHashes_) = 0) =>
              getTotalEntries(data_') = 0]_vars

\* C6, amended: ... and a set on a store with no servers leaves
\* getTotalEntries() as it was, which is 0 unless keys were written before the
\* last server was removed.
C6_SetFailureChangesNothing ==
    [][/\ SetFailsExactlyAndChangesNothing
       /\ (op'.name = "set" /\ getServerCount(nodeToHashes_) = 0) =>
              /\ getTotalEntries(data_') = getTotalEntries(data_)
              /\ (getTotalEntries(data_) = 0 => getTotalEntries(data_') = 0)]_vars

\* set returned false on a store with no servers that still holds a key.
C6_Witness ==
    /\ op.name = "set" /\ ret = FALSE /\ op.id # <<>>
    /\ getServerCount(nodeToHashes_) = 0
    /\ getTotalEntries(data_) > 0

\* C7: set of a non-empty key on a store with a server returns true, whether
\* the key is new or not; then get(key) is the value, exists(key) holds,
\* getTotalEntries() has grown by one exactly if the key was new, and every
\* other key has the value it had.
C7_SetIsUpsert ==
    [][(/\ op'.name = "set" /\ op'.id # <<>>
        /\ getServerCount(nodeToHashes_) > 0) =>
          /\ ret' = TRUE
          /\ get(data_', op'.id) = op'.value
          /\ exists(data_', op'.id)
          /\ getTotalEntries(data_') =
                 getTotalEntries(data_) + (IF exists(data_, op'.id) THEN 0 ELSE 1)
          /\ \A k \in Keys \ {op'.id} : /\ get(data_', k) = get(data_, k)
                                        /\ exists(data_', k) = exists(data_, k)]_vars

\* set returned true writing the empty value over a key, beside another key
\* holding "v1".
C7_Witness ==
    /\ op.name = "set" /\ ret = TRUE /\ op.value = ""
    /\ get(data_, op.id) = ""
    /\ \E k \in DOMAIN data_ \ {op.id} : get(data_, k) = "v1"

\* C8: after set(key, value) returns true, key is exactly once in the key list
\* of the server the ring routes key to.
C8_SetTracksKeyOnceUnderOwner ==
    (op.name = "set" /\ ret = TRUE) =>
        Occurrences(getKeysForServer(serverKeys_, getServerForKey(ring_, op.id)), op.id) = 1

\* set returned true on a store with two servers: only the server the ring
\* routes the key to holds it, and the other server, to which the key would go
\* without its owner, holds nothing.
C8_Witness ==
    /\ op.name = "set" /\ ret = TRUE
    /\ getServerCount(nodeToHashes_) = 2
    /\ Holders(op.id) = {getServerForKey(ring_, op.id)}
    /\ \E s \in getServers(serverKeys_) :
           /\ getKeysForServer(serverKeys_, s) = <<>>
           /\ getNode(removeNode(ring_, nodeToHashes_, getServerForKey(ring_, op.id)).ring,
                      op.id) = s

\* C9: remove of a key that is not in data_ returns false and changes nothing;
\* remove of a key in data_ returns true, after which exists(key) is false,
\* get(key) is empty, getTotalEntries() is one less and every other key has
\* the value it had.
C9_Remove ==
    [][op'.name = "remove" =>
          IF ~exists(data_, op'.id)
          THEN /\ ret' = FALSE
               /\ UNCHANGED <<data_, serverKeys_, ring_, nodeToHashes_>>
          ELSE /\ ret' = TRUE
               /\ ~exists(data_', op'.id)
               /\ get(data_', op'.id) = ""
               /\ getTotalEntries(data_') = getTotalEntries(data_) - 1
               /\ \A k \in Keys \ {op'.id} : /\ get(data_', k) = get(data_, k)
                                             /\ exists(data_', k) = exists(data_, k)]_vars

\* remove returned true and the other key is still in data_ with its value.
C9_Witness ==
    /\ op.name = "remove" /\ ret = TRUE
    /\ getTotalEntries(data_) = 1
    /\ \E k \in DOMAIN data_ : get(data_, k) = "v1"

\* C10: on a ring with nodes getNode(key) is one of getAllNodes(), and
\* getNode(key) is the empty string exactly when the ring has no nodes.
C10_GetNodeIsARingNode ==
    \A key \in ProbeKeys :
        /\ getNodeCount(nodeToHashes_) > 0 =>
               getNode(ring_, key) \in getAllNodes(nodeToHashes_)
        /\ (getNode(ring_, key) = <<>>) <=> (getNodeCount(nodeToHashes_) = 0)

\* After a removeNode two nodes are left, and some key hashes past the last
\* position, so that getNode wraps to the first.
C10_Witness ==
    /\ op.name = "removeNode" /\ ret = TRUE
    /\ getNodeCount(nodeToHashes_) = 2
    /\ \E key \in ProbeKeys : \A p \in DOMAIN ring_ : p < hash(key)

\* The owner the ring contract names for the hash h: the owner of the smallest
\* position >= h, and of the smallest position of all when there is none.
\* The ring is not empty.
IsClockwiseOwner(ring, h, owner) ==
    LET atOrAfter == {p \in DOMAIN ring : p >= h}
        from      == IF atOrAfter = {} THEN DOMAIN ring ELSE atOrAfter
    IN  \E p \in from : (\A q \in from : p <= q) /\ ring[p] = owner

\* C11: on a ring that is not empty, getNode(key) is the owner of the smallest
\* position >= hash(key), or of the smallest position of the ring when no
\* position is >= hash(key); so is what the last call of getNode returned.
C11_GetNodeIsClockwiseOwner ==
    DOMAIN ring_ # {} =>
        /\ \A k \in ProbeKeys : IsClockwiseOwner(ring_, hash(k), getNode(ring_, k))
        /\ op.name = "getNode" => IsClockwiseOwner(ring_, hash(op.id), ret)

\* C11 witness: getNode has just routed a key past the last position of a ring
\* of two nodes (the wrap), and another key hashes exactly onto a position.
C11_Witness ==
    /\ op.name = "getNode"
    /\ getNodeCount(nodeToHashes_) >= 2
    /\ \A p \in DOMAIN ring_ : p < hash(op.id)
    /\ ret = ring_[SetMin(DOMAIN ring_)]
    /\ \E k \in ProbeKeys : hash(k) \in DOMAIN ring_

\* The calls of a ring that only read it.
RingReadOps == {"getNode", "getNodes", "getNodeCount", "getVirtualNodeCount",
                "hasNode", "getAllNodes", "getDistributionStats"}

\* C12: a call of getNode, getNodes, getNodeCount, getVirtualNodeCount, hasNode,
\* getAllNodes or getDistributionStats leaves the ring as it was, and getNode
\* returns for a key the node it returned for that key at every earlier call
\* since the ring last changed, whatever reading calls came in between.
C12_RoutingIsDeterministicAndReadOnly ==
    [][/\ op'.name \in RingReadOps => ringVars' = ringVars
       /\ (op'.name = "getNode" /\ op'.id \in DOMAIN ringHistory.routed)
              => ret' = ringHistory.routed[op'.id].node]_vars

\* C12 witness: on a ring of two nodes that has not changed since, both keys were
\* routed, one of them twice and to another node than the other key, and the
\* last call read the distribution.
C12_Witness ==
    /\ op.name = "getDistributionStats"
    /\ getNodeCount(nodeToHashes_) >= 2
    /\ DOMAIN ringHistory.routed = RouteKeys
    /\ \E k1, k2 \in RouteKeys :
          /\ ringHistory.routed[k1].again
          /\ ringHistory.routed[k1].node # ringHistory.routed[k2].node

\* C13: when addNode adds a node that was not in the ring, every key is routed
\* afterwards to the node it was routed to before or to the new node.
C13_AdditionRemapsOnlyToTheNewNode ==
    [][(op'.name = "addNode" /\ exc' = "" /\ ~hasNode(nodeToHashes_, op'.id))
          => \A k \in ProbeKeys :
                getNode(ring_', k) \in {getNode(ring_, k), op'.id}]_vars

\* C13 witness: addNode has just added a third node, on a ring where a hashed
\* position was found taken; some key is routed to the new node and the two
\* other nodes still have keys.
C13_Witness ==
    /\ op.name = "addNode"
    /\ ringHistory.changed
    /\ ringHistory.probed
    /\ getNodeCount(nodeToHashes_) = 3
    /\ {getNode(ring_, k) : k \in ProbeKeys} = getAllNodes(nodeToHashes_)

\* C14: when removeNode removes a node of a ring of at least two nodes, a key
\* that was not routed to it is routed to the same node as before, and a key
\* that was routed to it is routed to one of the nodes that remain.
C14_RemovalRemapsOnlyTheRemovedNode ==
    [][(op'.name = "removeNode" /\ ret' = TRUE /\ getNodeCount(nodeToHashes_) >= 2)
          => \A k \in ProbeKeys :
                IF getNode(ring_, k) # op'.id
                THEN getNode(ring_', k) = getNode(ring_, k)
                ELSE getNode(ring_', k) \in getAllNodes(nodeToHashes_')]_vars

\* C14 witness: removeNode has just removed a node, two nodes remain and both
\* have keys, on a ring where a hashed position had been found taken.
C14_Witness ==
    /\ op.name = "removeNode"
    /\ ret = TRUE
    /\ ringHistory.changed
    /\ ringHistory.probed
    /\ getNodeCount(nodeToHashes_) = 2
    /\ {getNode(ring_, k) : k \in ProbeKeys} = getAllNodes(nodeToHashes_)

\* min(a, b).
Min(a, b) == IF a < b THEN a ELSE b

\* nodes is what C15 asks of getNodes(key, count) on the ring: nothing for a
\* count <= 0 or an empty ring, and else min(count, N) pairwise distinct names
\* of nodes of the ring, N the number of its nodes.
IsDistinctNodeList(nodes, count) ==
    IF count <= 0 \/ DOMAIN ring_ = {}
    THEN nodes = <<>>
    ELSE /\ Len(nodes) = Min(count, getNodeCount(nodeToHashes_))
         /\ \A i, j \in DOMAIN nodes : i # j => nodes[i] # nodes[j]
         /\ Range(nodes) \subseteq getAllNodes(nodeToHashes_)

\* C15: getNodes(key, n) ends and returns exactly min(n, N) pairwise distinct
\* names of nodes of the ring, N its number of nodes, and the empty list for
\* n <= 0 or an empty ring; so did the last call of getNodes.
C15_GetNodesReturnsDistinctNodes ==
    /\ \A k \in ProbeKeys : \A n \in (-1)..MaxCount :
          IsDistinctNodeList(getNodes(ring_, k, n), n)
    /\ op.name = "getNodes" => IsDistinctNodeList(ret, op.value)

\* C15 witness: getNodes was asked for more nodes than the ring of two nodes
\* has, each of them on several positions, and returned both.
C15_Witness ==
    /\ op.name = "getNodes"
    /\ getNodeCount(nodeToHashes_) = 2
    /\ op.value > 2
    /\ getVirtualNodeCount(ring_) > 2
    /\ Len(ret) = 2

\* How far clockwise from the hash h the first position of node lies.
ClockwiseDistance(h, node) ==
    SetMin({(p + HashSpace - h) % HashSpace : p \in {q \in DOMAIN ring_ : ring_[q] = node}})

\* nodes, not empty, starts with getNode(key) and lists the nodes of the ring
\* met first on the clockwise walk from hash(key), in the order they are met.
IsClockwiseOrder(nodes, key) ==
    /\ nodes[1] = getNode(ring_, key)
    /\ \A i, j \in DOMAIN nodes :
          i < j => ClockwiseDistance(hash(key), nodes[i]) < ClockwiseDistance(hash(key), nodes[j])
    /\ \A m \in getAllNodes(nodeToHashes_) \ Range(nodes) : \A i \in DOMAIN nodes :
          ClockwiseDistance(hash(key), nodes[i]) < ClockwiseDistance(hash(key), m)

\* C16: on a ring that is not empty and for n >= 1, the first element of
\* getNodes(key, n) is getNode(key) and the elements are listed in the order in
\* which the clockwise walk from there first meets a position of each; so was
\* the list the last call of getNodes returned.
C16_GetNodesIsInClockwiseOrder ==
    DOMAIN ring_ # {} =>
        /\ \A k \in ProbeKeys : \A n \in 1..MaxCount :
              IsClockwiseOrder(getNodes(ring_, k, n), k)
        /\ (op.name = "getNodes" /\ op.value >= 1) => IsClockwiseOrder(ret, op.id)

\* C16 witness: getNodes has returned the three nodes of a ring; the walk met
\* the third only after the wrap to the smallest position, and before it a
\* second position of a node it had already listed.
C16_Witness ==
    /\ op.name = "getNodes"
    /\ Len(ret) = 3
    /\ \A p \in DOMAIN ring_ : ring_[p] = ret[3] => p < hash(op.id)
    /\ \E p, q \in DOMAIN ring_ :
          /\ p # q
          /\ ring_[p] = ring_[q]
          /\ ring_[p] # ret[3]
          /\ (p + HashSpace - hash(op.id)) % HashSpace < ClockwiseDistance(hash(op.id), ret[3])
          /\ (q + HashSpace - hash(op.id)) % HashSpace < ClockwiseDistance(hash(op.id), ret[3])

\* C17: addNode of a node that is already in the ring throws nothing and leaves
\* the number of virtual nodes, the number of nodes, the owner of every
\* position and the route of every key as they were.
C17_DuplicateAddIsNoOp ==
    [][(op'.name = "addNode" /\ hasNode(nodeToHashes_, op'.id))
          => /\ exc' = ""
             /\ getVirtualNodeCount(ring_') = getVirtualNodeCount(ring_)
             /\ getNodeCount(nodeToHashes_') = getNodeCount(nodeToHashes_)
             /\ ring_' = ring_
             /\ nodeToHashes_' = nodeToHashes_
             /\ \A k \in ProbeKeys : getNode(ring_', k) = getNode(ring_, k)]_vars

\* C17 witness: addNode was just called for a node of a ring of two nodes that
\* a collision had moved off a hashed position, and the call changed nothing.
C17_Witness ==
    /\ op.name = "addNode"
    /\ exc = ""
    /\ hasNode(nodeToHashes_, op.id)
    /\ ~ringHistory.changed
    /\ ringHistory.probed
    /\ getNodeCount(nodeToHashes_) = 2

\* C18: removeNode of a node that is not in the ring returns false and leaves
\* the ring as it was; removeNode of a node of the ring returns true, after
\* which hasNode is false for it, it owns no position, the number of nodes is
\* one less, and the other nodes have the positions they had.
C18_RemoveNode ==
    [][op'.name = "removeNode"
          => IF ~hasNode(nodeToHashes_, op'.id)
             THEN /\ ret' = FALSE
                  /\ ring_' = ring_
                  /\ nodeToHashes_' = nodeToHashes_
             ELSE /\ ret' = TRUE
                  /\ ~hasNode(nodeToHashes_', op'.id)
                  /\ \A p \in DOMAIN ring_' : ring_'[p] # op'.id
                  /\ getNodeCount(nodeToHashes_') = getNodeCount(nodeToHashes_) - 1
                  /\ \A n \in getAllNodes(nodeToHashes_) \ {op'.id} :
                        /\ hasNode(nodeToHashes_', n)
                        /\ nodeToHashes_'[n] = nodeToHashes_[n]
                  /\ \A p \in DOMAIN ring_ :
                        ring_[p] # op'.id => p \in DOMAIN ring_' /\ ring_'[p] = ring_[p]]_vars

\* C18 witness: removeNode has just removed a node and returned true; a node
\* that remains still sits on a position a collision had moved it to.
C18_Witness ==
    /\ op.name = "removeNode"
    /\ ret = TRUE
    /\ ringHistory.changed
    /\ \E n \in getAllNodes(nodeToHashes_) :
          nodeToHashes_[n][1] # hash(getVirtualNodeName(n, 0))

\* The rings that addNode builds from an empty ring when the nodes are added
\* one after the other, in every order.
RECURSIVE RingsOf(_, _)
RingsOf(nodes, vn) ==
    IF nodes = {}
    THEN {[ring |-> EmptyMap, nodeToHashes |-> EmptyMap]}
    ELSE UNION {{addNode(r.ring, r.nodeToHashes, vn, n) : r \in RingsOf(nodes \ {n}, vn)} :
                    n \in nodes}

\* C19, as claimed: whatever the calls of addNode and removeNode that led to
\* it, the ring holds the position-to-owner map that adding its present nodes
\* to an empty ring builds, in whatever order they are added.
C19_RingIsDeterminedByNodeSet ==
    {r.ring : r \in RingsOf(getAllNodes(nodeToHashes_), virtualNodesPerNode_)} = {ring_}

\* C19, amended: as long as no addNode since construction or the last clear
\* found a hashed position taken, the ring holds the position-to-owner map that
\* adding its present nodes to an empty ring builds, in whatever order they
\* are added, and so routes every key as that ring does.
C19_RingIsDeterminedByNodeSetWithoutCollision ==
    ~ringHistory.probed =>
        /\ {r.ring : r \in RingsOf(getAllNodes(nodeToHashes_), virtualNodesPerNode_)} = {ring_}
        /\ \A r \in RingsOf(getAllNodes(nodeToHashes_), virtualNodesPerNode_) :
              \A k \in ProbeKeys : getNode(r.ring, k) = getNode(ring_, k)

\* C19 witness: no hashed position was found taken so far, a node has just been
\* removed and two nodes remain.
C19_Witness ==
    /\ ~ringHistory.probed
    /\ op.name = "removeNode"
    /\ ret = TRUE
    /\ getNodeCount(nodeToHashes_) = 2

\* position is the first free position met from hashValue on by adding 1
\* modulo HashSpace, taken being the positions already occupied.
IsFirstFreeFrom(position, hashValue, taken) ==
    \E d \in 0..(HashSpace - 1) :
        /\ position = (hashValue + d) % HashSpace
        /\ position \notin taken
        /\ \A e \in 0..(d - 1) : (hashValue + e) % HashSpace \in taken

\* C20: when addNode adds a node, each of its virtual nodes goes to the first
\* position, from the hash of its label on and adding 1 modulo the size of the
\* hash space, that neither the ring nor an earlier virtual node of this node
\* occupies; the ring gains one position per virtual node, all owned by the
\* node, and every position occupied before keeps its owner.
C20_CollisionsProbeToFirstFreePosition ==
    [][(op'.name = "addNode" /\ exc' = "" /\ ~hasNode(nodeToHashes_, op'.id))
          => LET hashes == nodeToHashes_'[op'.id]
             IN  /\ Len(hashes) = virtualNodesPerNode_
                 /\ \A i \in DOMAIN hashes :
                       /\ IsFirstFreeFrom(hashes[i],
                                          hash(getVirtualNodeName(op'.id, i - 1)),
                                          DOMAIN ring_ \cup {hashes[j] : j \in 1..(i - 1)})
                       /\ ring_'[hashes[i]] = op'.id
                 /\ getVirtualNodeCount(ring_')
                        = getVirtualNodeCount(ring_) + virtualNodesPerNode_
                 /\ \A p \in DOMAIN ring_ : p \in DOMAIN ring_' /\ ring_'[p] = ring_[p]]_vars

\* C20 witness: addNode has just added a node one of whose labels hashed onto a
\* taken position and went two or more positions up, past the last position
\* of the hash space, to the first free one.
C20_Witness ==
    /\ op.name = "addNode"
    /\ ringHistory.changed
    /\ \E i \in DOMAIN nodeToHashes_[op.id] :
          LET hashValue == hash(getVirtualNodeName(op.id, i - 1))
              position  == nodeToHashes_[op.id][i]
          IN  /\ position < hashValue
              /\ (position + HashSpace - hashValue) % HashSpace >= 2

\* C21: in every state of a ring, getVirtualNodeCount() is getNodeCount() times
\* virtualNodesPerNode, and every node of the ring owns exactly
\* virtualNodesPerNode positions, also after an addNode that found hashed
\* positions taken.
C21_VirtualNodeCountIsNodesTimesReplicas ==
    /\ getVirtualNodeCount(ring_) = getNodeCount(nodeToHashes_) * virtualNodesPerNode_
    /\ \A n \in getAllNodes(nodeToHashes_) :
          Cardinality({p \in DOMAIN ring_ : ring_[p] = n}) = virtualNodesPerNode_

\* C21 witness: a ring of three nodes with several virtual nodes each, built
\* with a hashed position found taken, has just been asked its number of
\* virtual nodes.
C21_Witness ==
    /\ op.name = "getVirtualNodeCount"
    /\ ringHistory.probed
    /\ virtualNodesPerNode_ > 1
    /\ getNodeCount(nodeToHashes_) = 3
    /\ ret = 3 * virtualNodesPerNode_

C23_RemoveAbsentServer ==
    [][(op'.name = "removeServer" /\ op'.id \notin getServers(serverKeys_))
          => /\ exc' = ""
             /\ ret' = FALSE
             /\ data_' = data_
             /\ serverKeys_' = serverKeys_
             /\ ring_' = ring_
             /\ nodeToHashes_' = nodeToHashes_]_vars

\* C23 witness: removeServer has just returned false for a name that is not a
\* server, on a store that has a server and a key under it.
C23_Witness ==
    /\ op.name = "removeServer"
    /\ ret = FALSE
    /\ op.id \notin getServers(serverKeys_)
    /\ \E t \in getServers(serverKeys_) : getKeysForServer(serverKeys_, t) # <<>>

\* The calls of a store that only read it.
StoreReadOps == {"get", "exists", "getKeysForServer", "getServers", "getServerForKey",
                 "getStats", "getServerCount", "getTotalEntries"}

\* C24: a call of get, exists, getKeysForServer, getServers, getServerForKey,
\* getStats, getServerCount or getTotalEntries leaves data_, every key list and
\* the ring as they were, and get(key) returns the value stored for key when
\* data_ holds key and the empty string when it does not.
C24_ReadsArePure ==
    [][/\ op'.name \in StoreReadOps
          => /\ exc' = ""
             /\ data_' = data_
             /\ serverKeys_' = serverKeys_
             /\ ringVars' = ringVars
       /\ op'.name = "get"
          => ret' = IF op'.id \in DOMAIN data_ THEN data_[op'.id] ELSE ""]_vars

\* C24 witness: get has just returned the value, not empty, stored for a key
\* that is in the key list of a server.
C24_Witness ==
    /\ op.name = "get"
    /\ op.id \in DOMAIN data_
    /\ ret = data_[op.id]
    /\ ret # ""
    /\ \E t \in getServers(serverKeys_) : op.id \in Range(getKeysForServer(serverKeys_, t))

\* C25, as claimed: no call on a constructed store throws, whatever its
\* arguments.
C25_NoOperationThrows == exc = ""

\* C25, amended: the one call on a constructed store that throws is addServer
\* with an empty server id; it throws invalid_argument and changes nothing.
\* removeServer, set, get, remove, exists and addServer with any other id
\* report failure through what they return.
C25_OnlyAddServerOfEmptyIdThrows ==
    [][/\ exc' # "" <=> (op'.name = "addServer" /\ op'.id = <<>>)
       /\ exc' # "" => /\ exc' = "invalid_argument"
                       /\ data_' = data_
                       /\ serverKeys_' = serverKeys_
                       /\ ringVars' = ringVars]_vars

\* C25 witness: addServer with an empty id has just thrown, on a store that
\* has a server and a key.
C25_Witness ==
    /\ op.name = "addServer"
    /\ op.id = <<>>
    /\ exc = "invalid_argument"
    /\ getServerCount(nodeToHashes_) > 0
    /\ getTotalEntries(data_) > 0

\* C26: the constructor of ConsistentHash throws for virtualNodesPerNode <= 0
\* and there is no ring afterwards, none of whose operations can then be
\* called; addNode with an empty name throws and leaves the positions and the
\* nodes of the ring as they were.
C26_InvalidConstructionThrows ==
    [][/\ op'.name = "ConsistentHash"
          => IF op'.value <= 0
             THEN exc' = "invalid_argument" /\ virtualNodesPerNode_' = 0
             ELSE exc' = "" /\ virtualNodesPerNode_' = op'.value
       /\ op'.name # "ConsistentHash" => virtualNodesPerNode_ > 0
       /\ (op'.name = "addNode" /\ op'.id = <<>>)
          => /\ exc' = "invalid_argument"
             /\ ring_' = ring_
             /\ nodeToHashes_' = nodeToHashes_]_vars

\* C26 witness: addNode with an empty name has just thrown on a ring of two
\* nodes.
C26_Witness ==
    /\ op.name = "addNode"
    /\ op.id = <<>>
    /\ exc = "invalid_argument"
    /\ getNodeCount(nodeToHashes_) = 2

\* C29: clear empties data_, every key list and the ring: right after it
\* getTotalEntries and getServerCount are 0, getServers and getStats are empty
\* and getServerForKey is the empty string for every key; and as long as the
\* store has no server every set fails and changes nothing, the store getting
\* a server again only through an addServer that returns true; what the reads
\* called right after clear return is 0, empty or the empty string.
C29_ClearWipesStoreAndRing ==
    [][/\ op'.name = "clear"
          => /\ getTotalEntries(data_') = 0
             /\ getServerCount(nodeToHashes_') = 0
             /\ getServers(serverKeys_') = {}
             /\ getStats(serverKeys_') = EmptyMap
             /\ \A k \in Keys : getServerForKey(ring_', k) = <<>>
       /\ (op'.name = "set" /\ getServerCount(nodeToHashes_) = 0)
          => /\ ret' = FALSE
             /\ data_' = data_
             /\ serverKeys_' = serverKeys_
       /\ (getServerCount(nodeToHashes_) = 0 /\ getServerCount(nodeToHashes_') # 0)
          => (op'.name = "addServer" /\ ret' = TRUE)
       /\ op.name = "clear"
          => /\ op'.name \in {"getTotalEntries", "getServerCount"} => ret' = 0
             /\ op'.name = "getServers" => ret' = {}
             /\ op'.name = "getStats" => ret' = EmptyMap
             /\ op'.name = "getServerForKey" => ret' = <<>>]_vars

\* C29 witness: clear has just run and the store has no server, no key list,
\* no entry and no position on its ring.
C29_Witness ==
    /\ op.name = "clear"
    /\ getServerCount(nodeToHashes_) = 0
    /\ getVirtualNodeCount(ring_) = 0
    /\ getServers(serverKeys_) = {}
    /\ getTotalEntries(data_) = 0

\* C30: getServerForKey(key) returns the current route of the ring for key,
\* the owner of the first position at or after hash(key) with wraparound, and
\* the empty string on an empty ring; the server under which the key lists
\* record the key has no part in it.
C30_GetServerForKeyIsRingRoute ==
    op.name = "getServerForKey"
        => /\ ret = getNode(ring_, op.id)
           /\ IF DOMAIN ring_ = {}
              THEN ret = <<>>
              ELSE IsClockwiseOwner(ring_, hash(op.id), ret)

\* C30 witness: getServerForKey has just returned the route of a stored key
\* that the key lists record under another server.
C30_Witness ==
    /\ op.name = "getServerForKey"
    /\ op.id \in DOMAIN data_
    /\ ret \in getServers(serverKeys_)
    /\ op.id \notin Range(getKeysForServer(serverKeys_, ret))
    /\ \E t \in getServers(serverKeys_) \ {ret} :
          op.id \in Range(getKeysForServer(serverKeys_, t))

\* A thread that is inside the critical section of its call: it holds the
\* mutex of the store, or that of the ring it called itself.
InCall(th) == th.pc \notin {"idle", "set_empty", "lock_guard", "ring_lock_guard"}

\* No thread waits for a mutex that will not be given back: the mutex of the
\* store is free or held by another thread that is inside its call, the holder
\* is never the waiting thread itself, and a thread about to call the ring
\* finds the mutex of the ring free.
NoThreadWaitsForever ==
    \A t \in Threads :
        /\ threads[t].pc = "lock_guard"
           => \/ mutex_.store = 0
              \/ /\ mutex_.store \in Threads \ {t}
                 /\ InCall(threads[mutex_.store])
        /\ threads[t].pc = "ring_lock_guard"
           => \/ mutex_.ring = 0
              \/ /\ mutex_.ring \in Threads \ {t}
                 /\ InCall(threads[mutex_.ring])
        /\ (threads[t].pc \in RingCalls /\ ~threads[t].inRing) => mutex_.ring = 0
        /\ threads[t].inRing => (mutex_.ring = t /\ mutex_.store = t)

\* An upper bound on the steps a thread still takes before its call returns.
Rank(th) ==
    LET n == Len(th.keysToReassign)
        left == IF th.i > n THEN 0 ELSE n - th.i + 1
        most == 6 + 3 * Cardinality(ThreadKeys)
        wait == IF th.inRing THEN 0 ELSE 1
    IN  CASE th.pc = "idle" -> 0
          [] th.pc \in {"return", "ring_return"} -> 1
          [] th.pc \in {"exists_find", "addServer_init", "remove_erase", "set_store"} -> 2
          [] th.pc \in {"getNode_lower_bound", "addNode_record", "removeNode_eraseNode"} -> 2
          [] th.pc \in {"addNode_insert", "removeNode_erase"} -> 3
          [] th.pc \in {"addNode_find", "removeNode_find"} -> 4
          [] th.pc = "ring_lock_guard" -> 5
          [] th.pc \in {"addServer_addNode", "remove_getNode"} -> 3 + wait
          [] th.pc \in {"addServer_find", "remove_find"} -> 5
          [] th.pc = "set_erase" -> 3
          [] th.pc = "set_getNode" -> 4 + wait
          [] th.pc = "set_getNodeCount" -> 6 + wait
          [] th.pc = "removeServer_loop" -> 2 + 3 * left
          [] th.pc = "removeServer_getNode" -> 3 * left + wait
          [] th.pc = "removeServer_erase" -> 3 + 3 * n
          [] th.pc = "removeServer_removeNode" -> 4 + 3 * n + wait
          [] th.pc = "removeServer_find" -> most
          [] th.pc = "lock_guard" -> most + 1
          [] th.pc = "set_empty" -> most + 2

\* C27: threads calling the store, or a ring on its own, never deadlock and
\* every call returns. No
\* thread waits for a mutex whose holder is not on its way to giving it back,
\* and every step a thread takes inside a call brings the return of the call
\* nearer: the steps it still has to take are bounded and go down.
C27_NoThreadBlocksForever ==
    [][/\ NoThreadWaitsForever
       /\ NoThreadWaitsForever'
       /\ \A t \in Threads :
             (threads[t].pc # "idle" /\ threads'[t] # threads[t])
                 => Rank(threads'[t]) < Rank(threads[t])]_vars

\* C27 witness: one thread is inside a call of the ring, holding both
\* mutexes, and the other waits for the mutex of the store.
C27_Witness ==
    \E t, u \in Threads :
        /\ threads[t].inRing
        /\ mutex_ = [store |-> t, ring |-> t]
        /\ threads[u].pc = "lock_guard"

\* The call made by one caller: the store it leaves and what it returns, from
\* the store s it finds.
Sequential(call, s) ==
    LET same(r) == [state |-> s, ret |-> r]
    IN  CASE call.name = "addServer" ->
               IF call.id \in DOMAIN s.serverKeys THEN same(FALSE)
               ELSE LET r == addNode(s.ring, s.nodeToHashes, virtualNodesPerNode_, call.id)
                    IN  [state |-> [s EXCEPT !.ring = r.ring,
                                             !.nodeToHashes = r.nodeToHashes,
                                             !.serverKeys = MapPut(@, call.id, <<>>)],
                         ret |-> TRUE]
          [] call.name = "removeServer" ->
               IF call.id \notin DOMAIN s.serverKeys THEN same(FALSE)
               ELSE LET r == removeNode(s.ring, s.nodeToHashes, call.id)
                    IN  [state |-> [s EXCEPT !.ring = r.ring,
                                             !.nodeToHashes = r.nodeToHashes,
                                             !.serverKeys =
                                                 reassignKeys(MapErase(@, call.id),
                                                              s.serverKeys[call.id], 1,
                                                              s.data, r.ring)],
                         ret |-> TRUE]
          [] call.name = "set" ->
               IF setRejects(s.ring, s.nodeToHashes, call.id) THEN same(FALSE)
               ELSE [state |-> [s EXCEPT !.data = MapPut(@, call.id, call.value),
                                         !.serverKeys =
                                             updateServerKeys(
                                                 IF call.id \in DOMAIN s.data
                                                 THEN eraseFromOldServer(@, call.id)
                                                 ELSE @,
                                                 call.id, getNode(s.ring, call.id))],
                     ret |-> TRUE]
          [] call.name = "remove" ->
               IF call.id \notin DOMAIN s.data THEN same(FALSE)
               ELSE [state |-> [s EXCEPT !.data = MapErase(@, call.id),
                                         !.serverKeys =
                                             IF getNode(s.ring, call.id) # <<>>
                                             THEN removeFromServerKeys(@, call.id,
                                                                       getNode(s.ring, call.id))
                                             ELSE @],
                     ret |-> TRUE]
          [] call.name = "exists" -> same(exists(s.data, call.id))
          [] call.name = "addNode" ->
               LET r == addNode(s.ring, s.nodeToHashes, virtualNodesPerNode_, call.id)
               IN  [state |-> [s EXCEPT !.ring = r.ring, !.nodeToHashes = r.nodeToHashes],
                    ret |-> FALSE]
          [] call.name = "removeNode" ->
               LET r == removeNode(s.ring, s.nodeToHashes, call.id)
               IN  [state |-> [s EXCEPT !.ring = r.ring, !.nodeToHashes = r.nodeToHashes],
                    ret |-> r.ret]
          [] call.name = "getNode" -> same(getNode(s.ring, call.id))

\* Sequential is what addServer, removeServer, set and remove do when one
\* caller makes them.
SequentialIsTheCall ==
    [][(/\ op'.name \in {"addServer", "removeServer", "set", "remove", "addNode",
                        "removeNode", "getNode"}
        /\ exc' = "")
          => /\ StoreState' = Sequential(op', StoreState).state
             /\ ret' = Sequential(op', StoreState).ret]_vars

\* C28: the calls of several threads on a store, and on a ring shared on its
\* own, are atomic. A call that returns leaves
\* the store, and returns, what the same call made alone leaves and returns
\* from the store as it was when the call took the mutex; while a thread is
\* inside a call no other thread changes the store or the ring, and no thread
\* changes them outside a call: so the returns and the final store are those
\* of the calls made one after the other in the order they took the mutex. A
\* set made with a server in the ring returns true and leaves the entries of
\* before and its key.
C28_CallsAreAtomic ==
    [][\A t \in Threads :
          /\ (threads[t].pc \in {"return", "ring_return"} /\ threads'[t].pc = "idle")
                => LET seq == Sequential(threads[t].call, threads[t].entered)
                   IN  /\ StoreState' = seq.state
                       /\ ret' = seq.ret
                       /\ op' = threads[t].call
          /\ (InCall(threads[t]) /\ threads'[t] = threads[t])
                => StoreState' = StoreState
          /\ (~InCall(threads[t]) /\ threads'[t] # threads[t])
                => StoreState' = StoreState
          /\ (threads[t].pc = "set_empty" /\ threads'[t].pc = "idle")
                => (ret' = FALSE /\ op' = threads[t].call)
          /\ (/\ threads[t].pc = "return"
              /\ threads'[t].pc = "idle"
              /\ threads[t].call.name = "set"
              /\ getNodeCount(threads[t].entered.nodeToHashes) > 0)
                => /\ ret' = TRUE
                   /\ DOMAIN data_' = DOMAIN threads[t].entered.data
                                          \cup {threads[t].call.id}]_vars

\* C28 witness: a thread returns true from set, the store holding two keys,
\* while the other thread, which has called set for the other key, waits for
\* the mutex.
C28_Witness ==
    \E t, u \in Threads :
        /\ threads[t].pc = "return"
        /\ threads[t].call.name = "set"
        /\ threads[t].result = TRUE
        /\ threads[u].pc = "lock_guard"
        /\ threads[u].call.name = "set"
        /\ threads[u].call.id # threads[t].call.id
        /\ getTotalEntries(data_) = 2

\* The test key "key_" + to_string(i).
TestKey(i) == <<107, 101, 121, 95>> \o Decimal(i)

\* The sum of the counts of a map over the names in S.
RECURSIVE SumOver(_, _)
SumOver(stats, S) ==
    IF S = {} THEN 0
    ELSE LET x == CHOOSE y \in S : TRUE
         IN  stats[x] + SumOver(stats, S \ {x})

\* C31: getDistributionStats(n) leaves the ring as it was; on an empty ring it
\* returns an empty map, and otherwise a map with one entry for every node of
\* the ring, the entry of a node being the number of test keys "key_i",
\* 0 <= i < n, that getNode routes to it (0 for a node that gets none), so
\* that the counts sum to n.
C31_DistributionStatsCountRoutes ==
    [][op'.name = "getDistributionStats"
          => /\ ring_' = ring_
             /\ nodeToHashes_' = nodeToHashes_
             /\ IF DOMAIN ring_ = {}
                THEN ret' = EmptyMap
                ELSE /\ DOMAIN ret' = getAllNodes(nodeToHashes_)
                     /\ \A x \in DOMAIN ret' :
                           ret'[x] = Cardinality({i \in 0..(op'.value - 1) :
                                                     getNode(ring_, TestKey(i)) = x})
                     /\ SumOver(ret', DOMAIN ret') = op'.value]_vars

\* C31 witness: getDistributionStats has just returned, for a ring of at least
\* two nodes, a count of 0 for one node and a count above 1 for another.
C31_Witness ==
    /\ op.name = "getDistributionStats"
    /\ getNodeCount(nodeToHashes_) >= 2
    /\ \E x, y \in DOMAIN ret : ret[x] = 0 /\ ret[y] > 1

\* C32: when removeServer removes the last server, data_ is as it was, so get,
\* exists and getTotalEntries answer as before, and no key is recorded under a
\* server: getStats and getServers are empty, and so is the ring.
C32_RemovingLastServerOrphansKeys ==
    [][(/\ op'.name = "removeServer"
        /\ ret' = TRUE
        /\ getServers(serverKeys_) = {op'.id})
          => /\ data_' = data_
             /\ \A k \in Keys : /\ get(data_', k) = get(data_, k)
                                /\ exists(data_', k) = exists(data_, k)
             /\ getTotalEntries(data_') = getTotalEntries(data_)
             /\ getStats(serverKeys_') = EmptyMap
             /\ getServers(serverKeys_') = {}
             /\ getServerCount(nodeToHashes_') = 0]_vars

\* C32 witness: removeServer has just removed the last server of a store that
\* holds two keys.
C32_Witness ==
    /\ op.name = "removeServer"
    /\ ret = TRUE
    /\ getServers(serverKeys_) = {}
    /\ getServerCount(nodeToHashes_) = 0
    /\ getTotalEntries(data_) = 2

\* C33: every key in the key list of a server is a key of data_, so the counts
\* of getStats sum to no more than getTotalEntries.
C33_NoStaleBookkeeping ==
    /\ \A s \in getServers(serverKeys_) :
          Range(getKeysForServer(serverKeys_, s)) \subseteq DOMAIN data_
    /\ SumOver(getStats(serverKeys_), getServers(serverKeys_)) <= getTotalEntries(data_)

\* C34: the servers of getServers are the nodes of the ring of the store, each
\* of them owning a position of it, and getServerCount is the number of
\* servers of getServers.
C34_StoreAndRingMembershipAgree ==
    /\ getServers(serverKeys_) = getAllNodes(nodeToHashes_)
    /\ getServers(serverKeys_) = {ring_[p] : p \in DOMAIN ring_}
    /\ getServerCount(nodeToHashes_) = Cardinality(getServers(serverKeys_))

\* C34 witness: removeServer has just removed one of two servers of a store
\* that holds a key, and one server is left.
C34_Witness ==
    /\ op.name = "removeServer"
    /\ ret = TRUE
    /\ getServerCount(nodeToHashes_) = 1
    /\ getServers(serverKeys_) = getAllNodes(nodeToHashes_)
    /\ getTotalEntries(data_) > 0

\* C35: with set and removeServer called on a store by different threads, a
\* set that returns true leaves its key in the key list of the server the ring
\* routed it to when the set took the mutex, a server that is still on the
\* ring when the set returns; a removeServer that returns true leaves no key list and no
\* node for its server; and once every call has returned every key list is
\* that of a server on the ring.
C35_SetAndRemoveServerDoNotInterleave ==
    [][/\ \A t \in Threads :
             (threads[t].pc = "return" /\ threads'[t].pc = "idle")
                 => /\ (threads[t].call.name = "set" /\ threads[t].result = TRUE)
                          => LET s == getNode(threads[t].entered.ring, threads[t].call.id)
                             IN  /\ s \in getAllNodes(threads[t].entered.nodeToHashes)
                                 /\ s \in getAllNodes(nodeToHashes_')
                                 /\ threads[t].call.id
                                       \in Range(getKeysForServer(serverKeys_', s))
                    /\ (threads[t].call.name = "removeServer" /\ threads[t].result = TRUE)
                          => /\ threads[t].call.id \notin getServers(serverKeys_')
                             /\ threads[t].call.id \notin getAllNodes(nodeToHashes_')
       /\ (SharedStore /\ \A t \in Threads : threads'[t].pc = "idle")
             => getServers(serverKeys_') = getAllNodes(nodeToHashes_')]_vars

\* C35 witness: a thread is about to return true from a set that recorded its
\* key under a server while the other thread, which has called removeServer
\* for that server, waits for the mutex.
C35_Witness ==
    \E t, u \in Threads :
        /\ threads[t].pc = "return"
        /\ threads[t].call.name = "set"
        /\ threads[t].result = TRUE
        /\ threads[t].call.id \in Range(getKeysForServer(serverKeys_, threads[t].serverId))
        /\ threads[u].pc = "lock_guard"
        /\ threads[u].call = Call("removeServer", threads[t].serverId, "")

\* C36: addNode(x) for a node x that is not on the ring, followed at once by
\* removeNode(x), gives back the ring map and the side index as they were
\* before the addNode, and every key routes as it did.
C36_AddThenRemoveRestoresRing ==
    [][(/\ op'.name = "addNode"
        /\ exc' = ""
        /\ op'.id \notin DOMAIN nodeToHashes_)
           => LET r == removeNode(ring_', nodeToHashes_', op'.id)
              IN  /\ r.ret = TRUE
                  /\ r.ring = ring_
                  /\ r.nodeToHashes = nodeToHashes_
                  /\ \A key \in ProbeKeys : getNode(r.ring, key) = getNode(ring_, key)]_vars

\* C36 witness: addNode has just put a new node on a ring that had nodes, and
\* one of its positions is not the hash of its label: the collision loop moved it.
C36_Witness ==
    /\ op.name = "addNode"
    /\ exc = ""
    /\ ringHistory.changed
    /\ getNodeCount(nodeToHashes_) >= 2
    /\ \E i \in 0..(virtualNodesPerNode_ - 1) :
           nodeToHashes_[op.id][i + 1] # hash(getVirtualNodeName(op.id, i))

\* C39: the ring map and the side index agree: every position of ring_ is in
\* the position list of exactly one node, which is the owner ring_ holds for it,
\* and every position in a node's list is in ring_ with that node as its owner.
C39_RingAndSideIndexAgree ==
    /\ \A p \in DOMAIN ring_ :
           /\ ring_[p] \in DOMAIN nodeToHashes_
           /\ {n \in DOMAIN nodeToHashes_ : p \in Range(nodeToHashes_[n])} = {ring_[p]}
    /\ \A n \in DOMAIN nodeToHashes_ :
           \A i \in DOMAIN nodeToHashes_[n] :
               /\ nodeToHashes_[n][i] \in DOMAIN ring_
               /\ ring_[nodeToHashes_[n][i]] = n

\* C39 witness: removeNode has just taken a node off a ring that keeps two or
\* more nodes, one of them at a position the collision loop moved it to.
C39_Witness ==
    /\ op.name = "removeNode"
    /\ ret = TRUE
    /\ getNodeCount(nodeToHashes_) >= 2
    /\ \E n \in DOMAIN nodeToHashes_ :
           \E i \in DOMAIN nodeToHashes_[n] :
               /\ nodeToHashes_[n][i] # hash(getVirtualNodeName(n, i - 1))
               /\ ring_[nodeToHashes_[n][i]] = n

-----------------------------------------------------------------------------
(* UrlShortenerKV: a URL shortener keeping short code -> URL in one
   KeyValueStore and URL -> short code in another.  The two stores are values
   [ring, nodeToHashes, data, serverKeys] and their calls are Sequential. *)

\* shorten makes no new short code once shortCodeIndex_ holds MaxUrls of them.
MaxUrls == 3

\* "server1", the server the constructor adds to both stores.
Server1 == <<115, 101, 114, 118, 101, 114, 49>>

UrlServerIds == {Server1, <<98>>}

Urls == {<<>>, <<97>>, <<98>>}

\* "s/"
BaseUrls == {<<115, 47>>}

\* "sc:", "url:", "next_id" and "index".
SHORT_CODE_PREFIX == <<115, 99, 58>>

LONG_URL_PREFIX == <<117, 114, 108, 58>>

NEXT_ID_KEY == <<110, 101, 120, 116, 95, 105, 100>>

INDEX_KEY == <<105, 110, 100, 101, 120>>

\* "0123456789abcdefghijklmnopqrstuvwxyzABCDEFGHIJKLMNOPQRSTUVWXYZ"
BASE62_CHARS ==
    [i \in 1..62 |-> IF i <= 10 THEN 47 + i ELSE IF i <= 36 THEN 86 + i ELSE 28 + i]

BASE62 == 62

\* KeyValueStore::get on a store value; the empty string when the key is absent.
kvGet(store, key) == IF key \in DOMAIN store.data THEN store.data[key] ELSE <<>>

\* KeyValueStore::set on a store value: the store it leaves.  The callers
\* below drop the bool it returns.
kvSet(store, key, value) == Sequential(Call("set", key, value), store).state

\* The while loop of encodeBase62.
RECURSIVE encodeBase62Digits(_)
encodeBase62Digits(num) ==
    IF num = 0 THEN <<>>
    ELSE encodeBase62Digits(num \div BASE62) \o <<BASE62_CHARS[(num % BASE62) + 1]>>

\* UrlShortenerKV::encodeBase62.
encodeBase62(num) == IF num = 0 THEN <<48>> ELSE encodeBase62Digits(num)

\* The digits a string starts with, as a number.
RECURSIVE leadingDigits(_, _)
leadingDigits(str, value) ==
    IF str = <<>> \/ Head(str) \notin 48..57 THEN value
    ELSE leadingDigits(Tail(str), 10 * value + (Head(str) - 48))

\* std::stoull on what saveNextId stores: ok is false where it throws, on a
\* string that does not start with a digit.
stoull(str) ==
    [ok |-> str # <<>> /\ Head(str) \in 48..57, value |-> leadingDigits(str, 0)]

\* UrlShortenerKV::saveNextId: the store it leaves.
saveNextId(store, id) == kvSet(store, NEXT_ID_KEY, Decimal(id))

\* UrlShortenerKV::getNextId: the id it returns, and the [store, nextId] it leaves.
getNextId(store, nextId) ==
    LET idStr  == kvGet(store, NEXT_ID_KEY)
        loaded == IF idStr # <<>> /\ stoull(idStr).ok
                  THEN stoull(idStr).value + 1
                  ELSE nextId
    IN  [store |-> saveNextId(store, loaded), nextId |-> loaded + 1, id |-> loaded]

\* The while loop of generateShortCode: a new id while the code is a key of the store.
RECURSIVE uniqueShortCode(_)
uniqueShortCode(g) ==
    IF exists(g.store.data, SHORT_CODE_PREFIX \o encodeBase62(g.id))
    THEN uniqueShortCode(getNextId(g.store, g.nextId))
    ELSE g

\* UrlShortenerKV::generateShortCode.
generateShortCode(store, nextId) ==
    LET g == uniqueShortCode(getNextId(store, nextId))
    IN  [store |-> g.store, nextId |-> g.nextId, shortCode |-> encodeBase62(g.id)]

\* The loop of saveIndex: the codes with a comma between them.
RECURSIVE joinIndex(_)
joinIndex(index) ==
    IF index = <<>> THEN <<>>
    ELSE IF Len(index) = 1 THEN index[1]
    ELSE index[1] \o <<44>> \o joinIndex(Tail(index))

\* UrlShortenerKV::saveIndex: the store it leaves.
saveIndex(store, index) == kvSet(store, INDEX_KEY, joinIndex(index))

\* The loop of extractShortCode taking '/' and white space off the end.
RECURSIVE stripTrailing(_)
stripTrailing(shortCode) ==
    IF shortCode # <<>> /\ shortCode[Len(shortCode)] \in {47, 32} \cup 9..13
    THEN stripTrailing(SubSeq(shortCode, 1, Len(shortCode) - 1))
    ELSE shortCode

\* UrlShortenerKV::extractShortCode.
extractShortCode(baseUrl, shortUrl) ==
    IF Len(shortUrl) < Len(baseUrl) \/ SubSeq(shortUrl, 1, Len(baseUrl)) # baseUrl
    THEN <<>>
    ELSE stripTrailing(SubSeq(shortUrl, Len(baseUrl) + 1, Len(shortUrl)))

\* UrlShortenerKV::expand.
expand(store, shortCode) ==
    IF shortCode = <<>> THEN <<>> ELSE kvGet(store, SHORT_CODE_PREFIX \o shortCode)

\* UrlShortenerKV::expandUrl.
expandUrl(baseUrl, store, shortUrl) ==
    LET shortCode == extractShortCode(baseUrl, shortUrl)
    IN  IF shortCode = <<>> THEN <<>> ELSE expand(store, shortCode)

\* What a call of the shortener leaves alone: a store and a ring of their own.
notShortenerVars ==
    <<ring_, nodeToHashes_, data_, serverKeys_, writtenSinceAdd, ringHistory, threadVars>>

\* UrlShortenerKV::shorten.
UrlShortenerKV_shorten(longUrl) ==
    LET reverseKey   == LONG_URL_PREFIX \o longUrl
        existingCode == kvGet(reverseKvStore_, reverseKey)
    IN  /\ op' = Call("shorten", longUrl, "")
        /\ IF longUrl = <<>>
           THEN /\ exc' = "invalid_argument"
                /\ ret' = <<>>
                /\ UNCHANGED <<kvStore_, reverseKvStore_, nextId_, shortCodeIndex_>>
           ELSE IF existingCode # <<>>
           THEN /\ exc' = ""
                /\ ret' = baseUrl_ \o existingCode
                /\ UNCHANGED <<kvStore_, reverseKvStore_, nextId_, shortCodeIndex_>>
           ELSE LET g      == generateShortCode(kvStore_, nextId_)
                    stored == kvSet(g.store, SHORT_CODE_PREFIX \o g.shortCode, longUrl)
                    index  == Append(shortCodeIndex_, g.shortCode)
                IN  /\ Len(shortCodeIndex_) < MaxUrls
                    /\ exc' = ""
                    /\ ret' = baseUrl_ \o g.shortCode
                    /\ kvStore_' = saveIndex(stored, index)
                    /\ reverseKvStore_' = kvSet(reverseKvStore_, reverseKey, g.shortCode)
                    /\ nextId_' = g.nextId
                    /\ shortCodeIndex_' = index
        /\ UNCHANGED <<virtualNodesPerNode_, baseUrl_, notShortenerVars>>

\* A call of the shortener that changes nothing.
ShortenerRead(name, id, result) ==
    /\ op' = Call(name, id, "")
    /\ exc' = ""
    /\ ret' = result
    /\ UNCHANGED <<virtualNodesPerNode_, shortenerVars, notShortenerVars>>

\* UrlShortenerKV::expand, called by the user.
UrlShortenerKV_expand(shortCode) ==
    ShortenerRead("expand", shortCode, expand(kvStore_, shortCode))

\* UrlShortenerKV::expandUrl, called by the user.
UrlShortenerKV_expandUrl(shortUrl) ==
    ShortenerRead("expandUrl", shortUrl, expandUrl(baseUrl_, kvStore_, shortUrl))

\* UrlShortenerKV::size.
UrlShortenerKV_size == ShortenerRead("size", <<>>, Len(shortCodeIndex_))

\* UrlShortenerKV::clear.
UrlShortenerKV_clear ==
    /\ op' = Call("clear", <<>>, "")
    /\ exc' = ""
    /\ ret' = FALSE
    /\ kvStore_' = saveIndex(saveNextId(EmptyStore, 1), <<>>)
    /\ reverseKvStore_' = EmptyStore
    /\ shortCodeIndex_' = <<>>
    /\ nextId_' = 1
    /\ UNCHANGED <<virtualNodesPerNode_, baseUrl_, notShortenerVars>>

\* UrlShortenerKV::addServer.
UrlShortenerKV_addServer(serverId) ==
    LET result1 == Sequential(Call("addServer", serverId, ""), kvStore_)
        result2 == Sequential(Call("addServer", serverId, ""), reverseKvStore_)
    IN  /\ op' = Call("addServer", serverId, "")
        /\ exc' = ""
        /\ ret' = (result1.ret /\ result2.ret)
        /\ kvStore_' = result1.state
        /\ reverseKvStore_' = result2.state
        /\ UNCHANGED <<virtualNodesPerNode_, baseUrl_, nextId_, shortCodeIndex_,
                       notShortenerVars>>

\* UrlShortenerKV::removeServer.
UrlShortenerKV_removeServer(serverId) ==
    LET result1 == Sequential(Call("removeServer", serverId, ""), kvStore_)
        result2 == Sequential(Call("removeServer", serverId, ""), reverseKvStore_)
    IN  /\ op' = Call("removeServer", serverId, "")
        /\ exc' = ""
        /\ ret' = (result1.ret /\ result2.ret)
        /\ kvStore_' = result1.state
        /\ reverseKvStore_' = result2.state
        /\ UNCHANGED <<virtualNodesPerNode_, baseUrl_, nextId_, shortCodeIndex_,
                       notShortenerVars>>

\* The short codes and short URLs the user asks the shortener to expand.
ShortCodes == {<<>>} \cup {encodeBase62(id) : id \in 1..MaxUrls}

ShortUrls(baseUrl) ==
    {baseUrl \o encodeBase62(1), baseUrl \o encodeBase62(1) \o <<47>>, encodeBase62(1)}

UrlNext ==
    \/ \E longUrl \in Urls : UrlShortenerKV_shorten(longUrl)
    \/ \E shortCode \in ShortCodes : UrlShortenerKV_expand(shortCode)
    \/ \E shortUrl \in ShortUrls(baseUrl_) : UrlShortenerKV_expandUrl(shortUrl)
    \/ UrlShortenerKV_size
    \/ UrlShortenerKV_clear
    \/ \E serverId \in UrlServerIds : UrlShortenerKV_addServer(serverId)
    \/ \E serverId \in UrlServerIds : UrlShortenerKV_removeServer(serverId)

\* UrlShortenerKV::UrlShortenerKV(baseUrl, virtualNodesPerNode): both stores
\* get "server1"; the new store holds no next_id and no index to load.
UrlInit ==
    /\ virtualNodesPerNode_ \in 1..MaxVirtualNodes
    /\ ring_ = EmptyMap
    /\ nodeToHashes_ = EmptyMap
    /\ data_ = EmptyMap
    /\ serverKeys_ = EmptyMap
    /\ op = Call("construct", <<>>, "")
    /\ ret = FALSE
    /\ exc = ""
    /\ writtenSinceAdd = {}
    /\ ringHistory = [probed |-> FALSE, changed |-> FALSE, routed |-> EmptyMap]
    /\ threads = [t \in Threads |-> IdleThread(0)]
    /\ mutex_ = [store |-> 0, ring |-> 0]
    /\ baseUrl_ \in BaseUrls
    /\ kvStore_ = Sequential(Call("addServer", Server1, ""), EmptyStore).state
    /\ reverseKvStore_ = Sequential(Call("addServer", Server1, ""), EmptyStore).state
    /\ nextId_ = 1
    /\ shortCodeIndex_ = <<>>

UrlSpec == UrlInit /\ [][UrlNext]_vars

\* C37: the short URL shorten returns for a URL that is not empty expands back
\* to the URL, by expand on its short code and by expandUrl on the whole of it.
C37_ShortenedUrlExpands ==
    [][(op'.name = "shorten" /\ exc' = "")
           => /\ expand(kvStore_', SubSeq(ret', Len(baseUrl_') + 1, Len(ret'))) = op'.id
              /\ expandUrl(baseUrl_', kvStore_', ret') = op'.id]_vars

\* C38: shorten called again with the URL it has just shortened returns the
\* same short URL and size() does not grow.
C38_ShortenTwiceIsOneEntry ==
    [][(/\ op.name = "shorten" /\ exc = ""
        /\ op'.name = "shorten" /\ op'.id = op.id)
           => /\ ret' = ret
              /\ Len(shortCodeIndex_') = Len(shortCodeIndex_)]_vars

=============================================================================
